---- MODULE Spec2Model ----
(***************************************************************************)
(* Feed ingestion, deduplicating article store, conditional cache and      *)
(* metrics log of the news aggregator server (server/db.ts,                *)
(* server/scheduler.ts, server/metrics.ts, server/translator.ts).          *)
(*                                                                         *)
(* JavaScript values are tagged records: Undef, Null, Str(s), Obj(_, href).*)
(* A string is a sequence of one-character strings.                        *)
(***************************************************************************)
EXTENDS Integers, Sequences, FiniteSets, TLC

VARIABLES
    feeds,           \* feeds.ts `RSS_FEEDS`: the catalog the server was built with
    articles,        \* db.ts `articles`: the StoredArticles in Map insertion order
    feedCache,       \* db.ts `feedCache`: feed url -> FeedCacheEntry
    metricsLog,      \* metrics.ts `metricsLog`
    cronTasks,       \* scheduler.ts `cronTasks`: the feed of each registered task
    fetches,         \* the fetchAndStoreFeed calls the process has started
    attempts,        \* how many fetchAndStoreFeed calls were started
    now,             \* the clock read by Date.now() / new Date()
    lingoDotDev,     \* translator.ts `lingoDotDev`: TRUE once the engine exists
    processInterval, \* translator.ts `processInterval`: TRUE when not null
    liveIntervals,   \* setInterval(processQueue, ...) timers not yet cleared
    initialTimers,   \* pending setTimeout(processQueue, 5000) timers
    wakeTimers,      \* pending setTimeout(processQueue, 1000) timers
    isProcessing,    \* translator.ts `isProcessing`
    cycles,          \* the processQueue calls that passed the entry guard
    cyclesStarted,   \* how many of them there were
    lastCall,        \* the last direct call of the db.ts interface and its result
    upserted         \* the ids upsertArticle was called with so far

storeVars == <<articles, feedCache>>

schedulerVars == <<cronTasks, fetches, attempts>>

timerVars == <<processInterval, liveIntervals, initialTimers>>

queueVars == <<lingoDotDev, isProcessing, cycles, cyclesStarted>>

callVars == <<lastCall, upserted>>

vars == <<feeds, storeVars, metricsLog, schedulerVars, now, timerVars, wakeTimers, queueVars,
          callVars>>

----
\* Bounds of the model.

\* Fetch attempts started in one behaviour.
MaxAttempts == 2

\* Metrics appended in one behaviour of SpecMetrics.
MaxLogged == 503

\* Items ingested by direct calls in one behaviour of SpecStore.
MaxCalls == 4

\* processQueue calls that pass the entry guard in one behaviour.
MaxCycles == 2

\* The provider calls that fail in a run in which calls eventually succeed.
MaxRejects == 1

\* Calls of initTranslationQueue in one behaviour.
MaxInits == 2

----
\* JavaScript values.

Undef == [t |-> "undefined"]

Null == [t |-> "null"]

Str(s) == [t |-> "string", v |-> s]

\* An xml2js node that carries attributes: { _: text, $: { href } }.
Obj(text, href) == [t |-> "object", text |-> text, href |-> href]

Truthy(v) == v.t = "object" \/ (v.t = "string" /\ v.v # <<>>)

IsSpace(c) == c = " "

RECURSIVE trimStart(_)
trimStart(s) ==
    IF s # <<>> /\ IsSpace(Head(s)) THEN trimStart(Tail(s)) ELSE s

RECURSIVE trimEnd(_)
trimEnd(s) ==
    IF s # <<>> /\ IsSpace(s[Len(s)]) THEN trimEnd(SubSeq(s, 1, Len(s) - 1)) ELSE s

\* String.prototype.trim
trim(s) == trimEnd(trimStart(s))

\* createHash("sha256").update(link).digest("hex"): a digest is tagged with
\* its preimage, so the hash is injective and no digest equals a guid.
Sha256(s) == <<"sha256">> \o s

----
\* db.ts

\* A variant that returns the guid as it came, untrimmed.
generateArticleId_Untrimmed(guid, link) ==
    IF Truthy(guid) /\ guid.t = "string" /\ Len(trim(guid.v)) > 0
        THEN guid.v
        ELSE Sha256(link)

\* A variant whose fallback hashes the empty string whatever the link is.
generateArticleId_HashOfNothing(guid, link) ==
    IF Truthy(guid) /\ guid.t = "string" /\ Len(trim(guid.v)) > 0
        THEN trim(guid.v)
        ELSE Sha256(<<>>)

generateArticleId(guid, link) ==
    IF Truthy(guid) /\ guid.t = "string" /\ Len(trim(guid.v)) > 0
        THEN trim(guid.v)
        ELSE Sha256(link)

\* articles.has(id)
hasArticle(arts, id) == \E i \in DOMAIN arts : arts[i].id = id

\* A variant without the has-check: Map.set replaces the entry in place and
\* the call reports an insertion.
upsertArticle_Overwrite(arts, article) ==
    IF hasArticle(arts, article.id)
        THEN [articles |-> [i \in DOMAIN arts |->
                                IF arts[i].id = article.id THEN article ELSE arts[i]],
              isNew |-> TRUE]
        ELSE [articles |-> Append(arts, article), isNew |-> TRUE]

\* The store after the call and the value the call returns.
upsertArticle(arts, article) ==
    IF hasArticle(arts, article.id)
        THEN [articles |-> arts, isNew |-> FALSE]
        ELSE [articles |-> Append(arts, article), isNew |-> TRUE]

\* articles.get(id), for an id the store has
getArticle(arts, id) == arts[CHOOSE i \in DOMAIN arts : arts[i].id = id]

getArticleCount(arts) == Len(arts)

\* A variant without the filter: every stored article is returned.
getUntranslatedArticles_All(arts, locale) == arts

\* A variant that returns the articles without any translation entry,
\* whatever the locale.
getUntranslatedArticles_AnyLocale(arts, locale) ==
    SelectSeq(arts, LAMBDA article : DOMAIN article.translations = {})

\* The property names every object literal inherits from Object.prototype;
\* their values are functions or objects, hence truthy. None of them is a
\* locale code.
ObjectPrototypeKeys ==
    {"constructor", "hasOwnProperty", "isPrototypeOf", "propertyIsEnumerable",
     "toLocaleString", "toString", "valueOf", "__proto__"}

\* Array.from(articles.values()).filter(...): the articles, in Map order,
\* for which translations[locale] is falsy. An entry is an object, hence
\* truthy; without an entry the lookup gives the inherited property, or
\* undefined where there is none.
getUntranslatedArticles(arts, locale) ==
    SelectSeq(arts, LAMBDA article :
        locale \notin DOMAIN article.translations \cup ObjectPrototypeKeys)

NoTranslations == [l \in {} |-> Undef]

\* A variant that keeps no entry of the article but the one it writes.
storeTranslation_ReplacesAll(arts, articleId, locale, title, description, time) ==
    [i \in DOMAIN arts |->
        IF arts[i].id = articleId
            THEN [arts[i] EXCEPT !.translations =
                    [l \in {locale} |->
                        [title |-> title, description |-> description,
                         translatedAt |-> time]]]
            ELSE arts[i]]

storeTranslation(arts, articleId, locale, title, description, time) ==
    [i \in DOMAIN arts |->
        IF arts[i].id = articleId
            THEN [arts[i] EXCEPT !.translations =
                    [l \in DOMAIN @ \cup {locale} |->
                        IF l = locale
                            THEN [title |-> title, description |-> description,
                                  translatedAt |-> time]
                            ELSE @[l]]]
            ELSE arts[i]]

\* A variant that keeps a validator of the prior entry where the new entry
\* has none.
setFeedCache_Merge(cache, feedUrl, entry) ==
    [u \in DOMAIN cache \cup {feedUrl} |->
        IF u # feedUrl THEN cache[u]
        ELSE IF feedUrl \notin DOMAIN cache THEN entry
        ELSE [etag |-> IF entry.etag = Undef
                          THEN cache[feedUrl].etag ELSE entry.etag,
              lastModified |-> IF entry.lastModified = Undef
                                  THEN cache[feedUrl].lastModified
                                  ELSE entry.lastModified]]

getFeedCache(cache, feedUrl) ==
    IF feedUrl \in DOMAIN cache THEN cache[feedUrl] ELSE Undef

setFeedCache(cache, feedUrl, entry) ==
    [u \in DOMAIN cache \cup {feedUrl} |-> IF u = feedUrl THEN entry ELSE cache[u]]

----
\* metrics.ts

MAX_METRICS_HISTORY == 500

\* A variant that drops the newest entries instead of the oldest.
logFetchMetric_KeepOldest(log, metric) ==
    LET pushed == Append(log, metric)
    IN  IF Len(pushed) > MAX_METRICS_HISTORY
            THEN SubSeq(pushed, 1, MAX_METRICS_HISTORY)
            ELSE pushed

logFetchMetric(log, metric) ==
    LET pushed == Append(log, metric)
    IN  IF Len(pushed) > MAX_METRICS_HISTORY
            THEN SubSeq(pushed, Len(pushed) - MAX_METRICS_HISTORY + 1, Len(pushed))
            ELSE pushed

\* The sum of articlesAdded over log[lo .. hi], split in halves so that a
\* log of 500 entries is summed at a depth of 9.
RECURSIVE SumAddedIn(_, _, _)
SumAddedIn(log, lo, hi) ==
    IF lo > hi THEN 0
    ELSE IF lo = hi THEN log[lo].articlesAdded
    ELSE SumAddedIn(log, lo, (lo + hi) \div 2) + SumAddedIn(log, ((lo + hi) \div 2) + 1, hi)

\* metricsLog.reduce((sum, m) => sum + m.articlesAdded, 0)
SumAdded(log) == SumAddedIn(log, 1, Len(log))

\* A variant that counts every entry without insertions as a failure.
getMetrics_EmptyIsFailure(log) ==
    [totalFetches |-> Len(log),
     totalArticlesAdded |-> SumAdded(log),
     totalFailures |-> Cardinality({i \in 1..Len(log) : log[i].articlesAdded = 0}),
     total304Skips |-> Cardinality({i \in 1..Len(log) : log[i].skipped304})]

\* A variant that sums up the 50 entries of recentFetches only.
getMetrics_RecentOnly(log) ==
    LET recent == IF Len(log) > 50 THEN SubSeq(log, Len(log) - 49, Len(log)) ELSE log
    IN  [totalFetches |-> Len(recent),
         totalArticlesAdded |-> SumAdded(recent),
         totalFailures |-> Cardinality({i \in 1..Len(recent) : Truthy(recent[i].error)}),
         total304Skips |-> Cardinality({i \in 1..Len(recent) : recent[i].skipped304})]

\* The summary of getMetrics (avgDurationMs left out).
getMetrics(log) ==
    [totalFetches |-> Len(log),
     totalArticlesAdded |-> SumAdded(log),
     totalFailures |-> Cardinality({i \in 1..Len(log) : Truthy(log[i].error)}),
     total304Skips |-> Cardinality({i \in 1..Len(log) : log[i].skipped304})]

----
\* feeds.ts: two of the descriptors of RSS_FEEDS (lines 58-65 and 112-119),
\* one per source language. A behaviour runs with a catalog made of some of
\* them.

RSS_FEEDS ==
    << [url |-> "https://qna.org.qa/en/Pages/RSS-Feeds/Qatar", category |-> "Qatar",
        subcategory |-> "General", source |-> "QNA",
        pollIntervalMinutes |-> 2, sourceLocale |-> "en"],
       [url |-> "https://alarab.qa/category/%D8%A7%D9%82%D8%AA%D8%B5%D8%A7%D8%AF-%D9%85%D8%AD%D9%84%D9%8A/feed",
        category |-> "Economy",
        subcategory |-> "Local", source |-> "Al Arab",
        pollIntervalMinutes |-> 3, sourceLocale |-> "ar"] >>

FeedIndex == 1..Len(feeds)

----
\* scheduler.ts: one parsed feed item, as xml2js returns it.

RawItem(guid, id, link, title, description, summary, pubDate) ==
    [guid |-> guid, id |-> id, link |-> link, title |-> title,
     description |-> description, summary |-> summary, content |-> Undef,
     contentEncoded |-> Undef, pubDate |-> pubDate, published |-> Undef,
     updated |-> Undef]

\* item.guid?._ ? item.guid._ : typeof item.guid === "string" ? item.guid : item.id || null
rawGuidOf(item) ==
    IF item.guid.t = "object" /\ Truthy(item.guid.text) THEN item.guid.text
    ELSE IF item.guid.t = "string" THEN item.guid
    ELSE IF Truthy(item.id) THEN item.id
    ELSE Null

\* typeof item.link === "string" ? item.link : item.link?.$?.href || item.link?.href || ""
linkOf(item) ==
    IF item.link.t = "string" THEN item.link.v
    ELSE IF item.link.t = "object" /\ Truthy(item.link.href) THEN item.link.href.v
    ELSE <<>>

\* typeof item.title === "string" ? item.title : item.title?._ || ""
titleOf(item) ==
    IF item.title.t = "string" THEN item.title
    ELSE IF item.title.t = "object" /\ Truthy(item.title.text) THEN item.title.text
    ELSE Str(<<>>)

\* item.description || item.summary || item.content?._ || item["content:encoded"] || ""
descriptionOf(item) ==
    IF Truthy(item.description) THEN item.description
    ELSE IF Truthy(item.summary) THEN item.summary
    ELSE IF item.content.t = "object" /\ Truthy(item.content.text) THEN item.content.text
    ELSE IF Truthy(item.contentEncoded) THEN item.contentEncoded
    ELSE Str(<<>>)

\* item.pubDate || item.published || item.updated || ""
pubDateOf(item) ==
    IF Truthy(item.pubDate) THEN item.pubDate
    ELSE IF Truthy(item.published) THEN item.published
    ELSE IF Truthy(item.updated) THEN item.updated
    ELSE Str(<<>>)

RECURSIVE collapseWhitespace(_)
collapseWhitespace(s) ==
    IF Len(s) < 2 THEN s
    ELSE IF IsSpace(s[1]) /\ IsSpace(s[2]) THEN collapseWhitespace(Tail(s))
    ELSE <<Head(s)>> \o collapseWhitespace(Tail(s))

\* str.replace on a value that is no string raises a TypeError.
cleanHtmlThrows(v) == Truthy(v) /\ v.t # "string"

\* The alphabet has no "<" and no "&": tag stripping and entity unescaping
\* change nothing, and no text reaches 1000 characters.
cleanHtml(v) ==
    IF ~Truthy(v) THEN <<>> ELSE trim(collapseWhitespace(v.v))

buildArticle(item, feed, time) ==
    [id |-> generateArticleId(rawGuidOf(item), linkOf(item)),
     guid |-> rawGuidOf(item),
     title |-> cleanHtml(titleOf(item)),
     description |-> cleanHtml(descriptionOf(item)),
     link |-> linkOf(item),
     pubDate |-> pubDateOf(item),
     category |-> feed.category,
     subcategory |-> feed.subcategory,
     source |-> feed.source,
     sourceLocale |-> feed.sourceLocale,
     ingestedAt |-> time,
     translations |-> NoTranslations]

\* A variant that counts every item of the payload as an insertion.
RECURSIVE processItems_CountAll(_, _, _, _, _)
processItems_CountAll(items, feed, arts, added, time) ==
    IF items = <<>>
        THEN [articles |-> arts, articlesAdded |-> added, threw |-> FALSE]
    ELSE IF cleanHtmlThrows(titleOf(Head(items)))
            \/ cleanHtmlThrows(descriptionOf(Head(items)))
        THEN [articles |-> arts, articlesAdded |-> added, threw |-> TRUE]
    ELSE LET r == upsertArticle(arts, buildArticle(Head(items), feed, time))
         IN  processItems_CountAll(Tail(items), feed, r.articles, added + 1, time)

\* The for loop over the items: the store it leaves, the insertions it
\* counted, and whether an item raised before the loop ended.
RECURSIVE processItems(_, _, _, _, _)
processItems(items, feed, arts, added, time) ==
    IF items = <<>>
        THEN [articles |-> arts, articlesAdded |-> added, threw |-> FALSE]
    ELSE IF cleanHtmlThrows(titleOf(Head(items)))
            \/ cleanHtmlThrows(descriptionOf(Head(items)))
        THEN [articles |-> arts, articlesAdded |-> added, threw |-> TRUE]
    ELSE LET r == upsertArticle(arts, buildArticle(Head(items), feed, time))
         IN  processItems(Tail(items), feed, r.articles,
                          IF r.isNew THEN added + 1 ELSE added, time)

\* A variant that takes the item nodes of a document of any root.
itemsOf_AnyRoot(result) ==
    IF result.wrap = "array" THEN result.nodes
    ELSE IF result.wrap = "single" THEN <<result.nodes[1]>>
    ELSE <<>>

\* What parseStringPromise resolved with: result.rss.channel.item or
\* result.feed.entry, which xml2js (explicitArray: false) gives as a single
\* node, as an array of several nodes, or not at all.
itemsOf(result) ==
    IF result.shape \in {"rss", "atom"} /\ result.wrap = "array" THEN result.nodes
    ELSE IF result.shape \in {"rss", "atom"} /\ result.wrap = "single"
        THEN <<result.nodes[1]>>
    ELSE <<>>

----
\* Inputs: the items a feed may carry, the payloads built from them, and the
\* validator headers a response may carry.

\* <guid>a</guid>, plain link x.
ItemA == RawItem(Str(<<"a">>), Undef, Str(<<"x">>), Str(<<"t">>),
                 Str(<<"d", " ", " ", "d">>), Undef, Str(<<"p">>))

\* <guid isPermaLink="false"> a </guid>, another link and title.
ItemA2 == RawItem(Obj(Str(<<" ", "a", " ">>), Undef), Undef, Str(<<"y">>),
                  Str(<<"u">>), Undef, Str(<<"s">>), Undef)

\* No guid, plain link x.
ItemX == RawItem(Undef, Undef, Str(<<"x">>), Str(<<"t">>), Undef, Undef, Undef)

\* Blank guid, Atom link with href x.
ItemX2 == RawItem(Str(<<" ">>), Undef, Obj(Undef, Str(<<"x">>)),
                  Obj(Str(<<"u">>), Undef), Str(<<"d">>), Undef, Undef)

\* No guid, plain link y.
ItemY == RawItem(Undef, Undef, Str(<<"y">>), Str(<<"t">>), Undef, Undef, Undef)

\* Atom entry with <id>b</id> and <summary type="html">.
ItemB == RawItem(Undef, Str(<<"b">>), Obj(Undef, Str(<<"y">>)), Str(<<"t">>),
                 Undef, Obj(Str(<<"s">>), Undef), Undef)

Items == {ItemA, ItemA2, ItemX, ItemX2, ItemY, ItemB}

Rss(wrap, nodes) == [shape |-> "rss", wrap |-> wrap, nodes |-> nodes]

Atom(wrap, nodes) == [shape |-> "atom", wrap |-> wrap, nodes |-> nodes]

\* A feed of n items with guids g, gg, ggg, ...
ManyItems(n) ==
    Rss("array", [k \in 1..n |->
        RawItem(Str([j \in 1..k |-> "g"]), Undef, Str(<<"x">>), Str(<<"t">>),
                Str(<<"d">>), Undef, Undef)])

\* What parseStringPromise may resolve with: no feed at all, a feed
\* without items, one item, several items (twice the same id, an item that
\* raises after or before an insertion, three new items).
ParsedResults ==
    {[shape |-> "other", wrap |-> "absent", nodes |-> <<>>],
     Rss("absent", <<>>), Atom("absent", <<>>),
     Rss("single", <<ItemA>>), Atom("single", <<ItemX>>),
     Rss("array", <<ItemA, ItemX>>), Rss("array", <<ItemX, ItemX2>>),
     Atom("array", <<ItemA, ItemB>>), Atom("array", <<ItemB, ItemX>>),
     Rss("array", <<ItemA, ItemX, ItemY>>)}

\* response.headers.get(name): null when the response has no such header.
HeaderValues(v) == {Null, Str(<<v>>)}

----
\* scheduler.ts: fetchAndStoreFeed, one action per stretch between awaits.

NoFetch == [pc |-> "none"]

FetchIds == 1..MaxAttempts

\* The FetchMetric built at time endTime (timestamp, durationMs).
Metric(feed, startTime, endTime, added, total, skipped, error) ==
    [feedUrl |-> feed.url, source |-> feed.source, timestamp |-> endTime,
     durationMs |-> endTime - startTime, articlesAdded |-> added,
     totalArticlesInFeed |-> total, skipped304 |-> skipped, error |-> error]

\* `|| undefined`
OrUndefined(v) == IF Truthy(v) THEN v ELSE Undef

\* Lines 73-96: the call up to `await fetch(...)`. idsAtStart remembers the
\* ids the store held when the attempt began.
BeginFetch(feedIx) ==
    LET cache == getFeedCache(feedCache, feeds[feedIx].url)
    IN  [pc |-> "fetch", feed |-> feedIx, startTime |-> now,
         ifNoneMatch |-> IF cache # Undef /\ Truthy(cache.etag)
                            THEN cache.etag ELSE Undef,
         ifModifiedSince |-> IF cache # Undef /\ Truthy(cache.lastModified)
                                THEN cache.lastModified ELSE Undef,
         idsAtStart |-> {articles[i].id : i \in DOMAIN articles}]

\* The call returns: its metric is logged and its promise settled. `outcome`
\* remembers what the attempt met: "notModified", "httpError",
\* "fetchRejected", "bodyRejected", "itemRaised" or "stored".
Settle(f, metric, promise, outcome) ==
    /\ metricsLog' = logFetchMetric(metricsLog, metric)
    /\ fetches' = [fetches EXCEPT ![f] =
            [pc |-> "done", feed |-> fetches[f].feed, promise |-> promise,
             metric |-> metric, outcome |-> outcome]]
    /\ now' = now + 1

\* A variant of the catch block that logs the metric and throws again.
CatchError_Rethrow(f, message, outcome) ==
    Settle(f, Metric(feeds[fetches[f].feed], fetches[f].startTime, now, 0, 0, FALSE,
                     Str(<<message>>)), "rejected", outcome)

\* Lines 209-220: the catch block.
CatchError(f, message, outcome) ==
    Settle(f, Metric(feeds[fetches[f].feed], fetches[f].startTime, now, 0, 0, FALSE,
                     Str(<<message>>)), "fulfilled", outcome)

\* A variant that cancels the pending timer before it sets the new one.
triggerQueueProcessing_Debounced(timers) == 1

\* Lines 304-307.
triggerQueueProcessing(timers) == timers + 1

\* A variant that schedules a task for the first feed only.
startScheduler_FirstFeedOnly ==
    /\ attempts = 0
    /\ Len(feeds) <= MaxAttempts
    /\ cronTasks' = cronTasks \o <<1>>
    /\ fetches' = [f \in FetchIds |->
            IF f \in (attempts + 1)..(attempts + Len(feeds))
                THEN BeginFetch(f - attempts) ELSE fetches[f]]
    /\ attempts' = attempts + Len(feeds)
    /\ UNCHANGED <<feeds, storeVars, metricsLog, now, timerVars, wakeTimers, queueVars, callVars>>

\* Lines 27-50, with fetchAllFeeds (61-64) starting one fetch per feed.
\* index.ts calls it once, when the server starts.
startScheduler ==
    /\ attempts = 0
    /\ Len(feeds) <= MaxAttempts
    /\ cronTasks' = cronTasks \o [i \in FeedIndex |-> i]
    /\ fetches' = [f \in FetchIds |->
            IF f \in (attempts + 1)..(attempts + Len(feeds))
                THEN BeginFetch(f - attempts) ELSE fetches[f]]
    /\ attempts' = attempts + Len(feeds)
    /\ UNCHANGED <<feeds, storeVars, metricsLog, now, timerVars, wakeTimers, queueVars, callVars>>

\* Lines 27-50 called as the exported function, at any time: nothing in
\* them looks at the tasks that are already scheduled.
StartSchedulerCall ==
    /\ attempts + Len(feeds) <= MaxAttempts
    /\ cronTasks' = cronTasks \o [i \in FeedIndex |-> i]
    /\ fetches' = [f \in FetchIds |->
            IF f \in (attempts + 1)..(attempts + Len(feeds))
                THEN BeginFetch(f - attempts) ELSE fetches[f]]
    /\ attempts' = attempts + Len(feeds)
    /\ UNCHANGED <<feeds, storeVars, metricsLog, now, timerVars, wakeTimers, queueVars, callVars>>

\* A variant that stops the tasks but leaves them in cronTasks.
stopScheduler_LeavesRegistered ==
    /\ cronTasks' = cronTasks
    /\ lastCall' = [op |-> "stopScheduler", stopped |-> Len(cronTasks)]
    /\ UNCHANGED <<feeds, storeVars, metricsLog, fetches, attempts, now, timerVars, wakeTimers,
                   queueVars, upserted>>

\* Lines 52-58: every task of cronTasks is stopped and the array emptied.
\* lastCall remembers how many tasks the call stopped.
stopScheduler ==
    /\ cronTasks' = <<>>
    /\ lastCall' = [op |-> "stopScheduler", stopped |-> Len(cronTasks)]
    /\ UNCHANGED <<feeds, storeVars, metricsLog, fetches, attempts, now, timerVars, wakeTimers,
                   queueVars, upserted>>

\* Lines 35-39: a registered task fires.
CronTick(k) ==
    /\ attempts < MaxAttempts
    /\ fetches' = [fetches EXCEPT ![attempts + 1] = BeginFetch(cronTasks[k])]
    /\ attempts' = attempts + 1
    /\ UNCHANGED <<feeds, storeVars, metricsLog, cronTasks, now, timerVars, wakeTimers,
                   queueVars, callVars>>

\* A variant in which the failure also cancels the task of the feed.
FetchRejects_CancelsTask(f, message) ==
    /\ fetches[f].pc = "fetch"
    /\ CatchError(f, message, "fetchRejected")
    /\ cronTasks' = SelectSeq(cronTasks, LAMBDA feedIx : feedIx # fetches[f].feed)
    /\ UNCHANGED <<feeds, storeVars, attempts, timerVars, wakeTimers, queueVars, callVars>>

\* Line 93 rejects: the 15 s timeout or a network failure.
FetchRejects(f, message) ==
    /\ fetches[f].pc = "fetch"
    /\ CatchError(f, message, "fetchRejected")
    /\ UNCHANGED <<feeds, storeVars, cronTasks, attempts, timerVars, wakeTimers, queueVars,
                   callVars>>

\* A variant of the 304 branch that first stores the validators of the
\* response, as the 2xx branch does.
Respond304_CacheFirst(f) ==
    /\ fetches[f].pc = "fetch"
    /\ Truthy(fetches[f].ifNoneMatch) \/ Truthy(fetches[f].ifModifiedSince)
    /\ feedCache' = setFeedCache(feedCache, feeds[fetches[f].feed].url,
                                 [etag |-> Str(<<"n">>), lastModified |-> Undef])
    /\ Settle(f, Metric(feeds[fetches[f].feed], fetches[f].startTime, now, 0, 0, TRUE,
                        Undef), "fulfilled", "notModified")
    /\ UNCHANGED <<feeds, articles, cronTasks, attempts, timerVars, wakeTimers, queueVars,
                   callVars>>

\* A variant of the 304 branch that returns without logging its metric.
Respond304_NoMetric(f) ==
    /\ fetches[f].pc = "fetch"
    /\ Truthy(fetches[f].ifNoneMatch) \/ Truthy(fetches[f].ifModifiedSince)
    /\ fetches' = [fetches EXCEPT ![f] =
            [pc |-> "done", feed |-> fetches[f].feed, promise |-> "fulfilled",
             metric |-> Metric(feeds[fetches[f].feed], fetches[f].startTime, now, 0, 0,
                               TRUE, Undef),
             outcome |-> "notModified"]]
    /\ now' = now + 1
    /\ UNCHANGED <<feeds, storeVars, metricsLog, cronTasks, attempts, timerVars, wakeTimers,
                   queueVars, callVars>>

\* Lines 98-111: 304 Not Modified, which a server sends to a conditional request.
Respond304(f) ==
    /\ fetches[f].pc = "fetch"
    /\ Truthy(fetches[f].ifNoneMatch) \/ Truthy(fetches[f].ifModifiedSince)
    /\ Settle(f, Metric(feeds[fetches[f].feed], fetches[f].startTime, now, 0, 0, TRUE,
                        Undef), "fulfilled", "notModified")
    /\ UNCHANGED <<feeds, storeVars, cronTasks, attempts, timerVars, wakeTimers, queueVars,
                   callVars>>

\* Lines 113-115: a status outside 200-299.
RespondError(f) ==
    /\ fetches[f].pc = "fetch"
    /\ CatchError(f, "HTTP 500: Internal Server Error", "httpError")
    /\ UNCHANGED <<feeds, storeVars, cronTasks, attempts, timerVars, wakeTimers, queueVars,
                   callVars>>

\* Lines 113-115 for an error response that carries validator headers: the
\* throw comes before the headers are read.
RespondErrorWith(f, etagHeader, lastModifiedHeader) == RespondError(f)

\* A variant in which a 2xx response without validators deletes the entry
\* of the feed.
RespondOk_ClearsWhenAbsent(f, etagHeader, lastModifiedHeader) ==
    /\ fetches[f].pc = "fetch"
    /\ LET etag == OrUndefined(etagHeader)
           lastModified == OrUndefined(lastModifiedHeader)
       IN  feedCache' =
             IF Truthy(etag) \/ Truthy(lastModified)
                THEN setFeedCache(feedCache, feeds[fetches[f].feed].url,
                                  [etag |-> etag, lastModified |-> lastModified])
                ELSE [u \in DOMAIN feedCache \ {feeds[fetches[f].feed].url} |-> feedCache[u]]
    /\ fetches' = [fetches EXCEPT ![f] =
            [pc |-> "parse", feed |-> fetches[f].feed,
             startTime |-> fetches[f].startTime, idsAtStart |-> fetches[f].idsAtStart]]
    /\ UNCHANGED <<feeds, articles, metricsLog, cronTasks, attempts, now, timerVars, wakeTimers,
                   queueVars, callVars>>

\* Lines 117-126: a 2xx response, up to `await parseStringPromise(...)`.
\* Between the two awaits of lines 125 and 126 the call touches nothing
\* shared, so they are one wait here.
RespondOk(f, etagHeader, lastModifiedHeader) ==
    /\ fetches[f].pc = "fetch"
    /\ LET etag == OrUndefined(etagHeader)
           lastModified == OrUndefined(lastModifiedHeader)
       IN  feedCache' =
             IF Truthy(etag) \/ Truthy(lastModified)
                THEN setFeedCache(feedCache, feeds[fetches[f].feed].url,
                                  [etag |-> etag, lastModified |-> lastModified])
                ELSE feedCache
    /\ fetches' = [fetches EXCEPT ![f] =
            [pc |-> "parse", feed |-> fetches[f].feed,
             startTime |-> fetches[f].startTime, idsAtStart |-> fetches[f].idsAtStart]]
    /\ UNCHANGED <<feeds, articles, metricsLog, cronTasks, attempts, now, timerVars, wakeTimers,
                   queueVars, callVars>>

\* Line 125 or 126 rejects: the body could not be read, or is no
\* well-formed XML.
ParseRejects(f, message) ==
    /\ fetches[f].pc = "parse"
    /\ CatchError(f, message, "bodyRejected")
    /\ UNCHANGED <<feeds, storeVars, cronTasks, attempts, timerVars, wakeTimers, queueVars,
                   callVars>>

\* A variant in which the pipeline waits for the queue: the payload is
\* processed only when no cycle is under way.
ParseResolves_WaitsForQueue(f, result) ==
    /\ fetches[f].pc = "parse"
    /\ ~isProcessing
    /\ LET feed == feeds[fetches[f].feed]
           items == itemsOf(result)
           done == processItems(items, feed, articles, 0, now)
       IN  /\ articles' = done.articles
           /\ IF done.threw
                THEN /\ CatchError(f, "str.replace is not a function", "itemRaised")
                     /\ UNCHANGED wakeTimers
                ELSE /\ wakeTimers' = IF done.articlesAdded > 0
                                        THEN triggerQueueProcessing(wakeTimers)
                                        ELSE wakeTimers
                     /\ Settle(f, Metric(feed, fetches[f].startTime, now,
                                         done.articlesAdded, Len(items), FALSE, Undef),
                               "fulfilled", "stored")
    /\ UNCHANGED <<feeds, feedCache, cronTasks, attempts, timerVars, queueVars, callVars>>

\* Lines 128-208 (and 209-220 when an item raises): the parsed result is
\* turned into items, the items are inserted, the queue is woken, the
\* metric is logged.
ParseResolves(f, result) ==
    /\ fetches[f].pc = "parse"
    /\ LET feed == feeds[fetches[f].feed]
           items == itemsOf(result)
           done == processItems(items, feed, articles, 0, now)
       IN  /\ articles' = done.articles
           /\ IF done.threw
                THEN /\ CatchError(f, "str.replace is not a function", "itemRaised")
                     /\ UNCHANGED wakeTimers
                ELSE /\ wakeTimers' = IF done.articlesAdded > 0
                                        THEN triggerQueueProcessing(wakeTimers)
                                        ELSE wakeTimers
                     /\ Settle(f, Metric(feed, fetches[f].startTime, now,
                                         done.articlesAdded, Len(items), FALSE, Undef),
                               "fulfilled", "stored")
    /\ UNCHANGED <<feeds, feedCache, cronTasks, attempts, timerVars, queueVars, callVars>>

----
\* translator.ts

ENABLED_LOCALES == <<"en", "ar">>

BATCH_SIZE == 20

NoCycle == [pc |-> "none"]

\* What a cycle did, in order: "scan" (the articles a locale needs), then
\* per batch "resolved" or "rejected" (the provider call, with the keys its
\* response carried), and "sleep" between two batches.
Event(ev, locale, ids, keys) == [ev |-> ev, locale |-> locale, ids |-> ids, keys |-> keys]

\* The keys ("title", "desc") a provider response carries for the first
\* article of the batch and for each of the others.
Keys(first, rest) == [first |-> first, rest |-> rest]

NoKeys == Keys({}, {})

FullKeys == Keys({"title", "desc"}, {"title", "desc"})

CycleIds == 1..MaxCycles

\* A variant without the filter on sourceLocale.
needsTranslation_NoSourceFilter(arts, locale) ==
    LET untranslated == getUntranslatedArticles(arts, locale)
    IN  [k \in DOMAIN untranslated |-> untranslated[k].id]

\* Lines 205-212: the ids, in Map order, of the articles the two filters keep.
needsTranslation(arts, locale) ==
    LET untranslated == getUntranslatedArticles(arts, locale)
        needs == SelectSeq(untranslated, LAMBDA a : a.sourceLocale # locale)
    IN  [k \in DOMAIN needs |-> needs[k].id]

\* Lines 204-228: processQueue from the locale at index l on, up to the next
\* `await` (a provider call) or to the end of the loop.
RECURSIVE runQueueFrom(_, _, _)
runQueueFrom(arts, l, trace) ==
    IF l > Len(ENABLED_LOCALES) THEN [pc |-> "done", trace |-> trace]
    ELSE IF needsTranslation(arts, ENABLED_LOCALES[l]) = <<>>
        THEN runQueueFrom(arts, l + 1, trace)
    ELSE [pc |-> "translate", locale |-> l,
          needs |-> needsTranslation(arts, ENABLED_LOCALES[l]), i |-> 0,
          trace |-> Append(trace, Event("scan", ENABLED_LOCALES[l],
                                        needsTranslation(arts, ENABLED_LOCALES[l]), NoKeys))]

\* The cycle, remembering the ids the store held when processQueue passed
\* its entry guard.
Began(cycle, ids) ==
    [k \in DOMAIN cycle \cup {"idsAtStart"} |->
        IF k = "idsAtStart" THEN ids ELSE cycle[k]]

\* A variant of the slice that is one article short.
batchOf_OneShort(cycle) ==
    SubSeq(cycle.needs, cycle.i + 1,
           IF cycle.i + BATCH_SIZE < Len(cycle.needs)
                THEN cycle.i + BATCH_SIZE - 1 ELSE Len(cycle.needs) - 1)

\* needsTranslation.slice(i, i + BATCH_SIZE)
batchOf(cycle) ==
    SubSeq(cycle.needs, cycle.i + 1,
           IF cycle.i + BATCH_SIZE < Len(cycle.needs)
                THEN cycle.i + BATCH_SIZE ELSE Len(cycle.needs))

\* What the provider returns for a text.
Translated(text, locale) == <<locale>> \o text

\* A variant that stores no entry for an article whose keys are not both
\* in the response.
RECURSIVE storeBatch_SkipsPartial(_, _, _, _, _)
storeBatch_SkipsPartial(arts, batch, locale, keys, time) ==
    IF batch = <<>> THEN arts
    ELSE LET article == getArticle(arts, Head(batch))
             stored == IF keys.first = {"title", "desc"}
                          THEN storeTranslation(arts, Head(batch), locale,
                                                Translated(article.title, locale),
                                                Translated(article.description, locale),
                                                time)
                          ELSE arts
         IN  storeBatch_SkipsPartial(stored, Tail(batch), locale,
                                     Keys(keys.rest, keys.rest), time)

\* Lines 259-265: one translation entry per article of the batch; `keys`
\* says which keys the response carries.
RECURSIVE storeBatch(_, _, _, _, _)
storeBatch(arts, batch, locale, keys, time) ==
    IF batch = <<>> THEN arts
    ELSE LET article == getArticle(arts, Head(batch))
             translatedTitle == IF "title" \in keys.first
                                    THEN Translated(article.title, locale)
                                    ELSE article.title
             translatedDesc == IF "desc" \in keys.first
                                    THEN Translated(article.description, locale)
                                    ELSE article.description
         IN  storeBatch(storeTranslation(arts, Head(batch), locale, translatedTitle,
                                         translatedDesc, time),
                        Tail(batch), locale, Keys(keys.rest, keys.rest), time)

\* Lines 177-189.
initTranslationQueue ==
    /\ liveIntervals = 0
    /\ initialTimers = 0
    /\ lingoDotDev' = TRUE
    /\ processInterval' = TRUE
    /\ liveIntervals' = liveIntervals + 1
    /\ initialTimers' = initialTimers + 1
    /\ UNCHANGED <<feeds, storeVars, metricsLog, schedulerVars, now, wakeTimers, isProcessing,
                   cycles, cyclesStarted, callVars>>

\* Lines 177-189 called as the exported function, at any time: the handle
\* of a timer set by an earlier call is overwritten, and that timer runs on.
InitTranslationQueueCall ==
    /\ liveIntervals < MaxInits
    /\ initialTimers < MaxInits
    /\ lingoDotDev' = TRUE
    /\ processInterval' = TRUE
    /\ liveIntervals' = liveIntervals + 1
    /\ initialTimers' = initialTimers + 1
    /\ UNCHANGED <<feeds, storeVars, metricsLog, schedulerVars, now, wakeTimers, isProcessing,
                   cycles, cyclesStarted, callVars>>

\* Lines 191-196: the timer whose handle processInterval holds is cleared.
stopTranslationQueue ==
    /\ IF processInterval
            THEN /\ liveIntervals' = liveIntervals - 1
                 /\ processInterval' = FALSE
            ELSE UNCHANGED <<liveIntervals, processInterval>>
    /\ UNCHANGED <<feeds, storeVars, metricsLog, schedulerVars, now, initialTimers, wakeTimers,
                   lingoDotDev, isProcessing, cycles, cyclesStarted, callVars>>

\* A variant whose entry guard does not look at isProcessing.
processQueue_NoFlagGuard ==
    IF ~lingoDotDev
        THEN UNCHANGED <<isProcessing, cycles, cyclesStarted>>
    ELSE IF runQueueFrom(articles, 1, <<>>).pc = "done"
        THEN /\ isProcessing' = FALSE
             /\ UNCHANGED <<cycles, cyclesStarted>>
        ELSE /\ cyclesStarted < MaxCycles
             /\ cycles' = [cycles EXCEPT ![cyclesStarted + 1] =
                                Began(runQueueFrom(articles, 1, <<>>),
                                      {articles[i].id : i \in DOMAIN articles})]
             /\ isProcessing' = TRUE
             /\ cyclesStarted' = cyclesStarted + 1

\* A variant whose entry guard does not look at lingoDotDev.
processQueue_NoEngineGuard ==
    IF isProcessing
        THEN UNCHANGED <<isProcessing, cycles, cyclesStarted>>
    ELSE IF runQueueFrom(articles, 1, <<>>).pc = "done"
        THEN /\ isProcessing' = FALSE
             /\ UNCHANGED <<cycles, cyclesStarted>>
        ELSE /\ cyclesStarted < MaxCycles
             /\ cycles' = [cycles EXCEPT ![cyclesStarted + 1] =
                                Began(runQueueFrom(articles, 1, <<>>),
                                      {articles[i].id : i \in DOMAIN articles})]
             /\ isProcessing' = TRUE
             /\ cyclesStarted' = cyclesStarted + 1

\* Lines 199-234, from the entry guard to the first `await` or the return.
\* A call that finds nothing to translate sets and resets isProcessing
\* without an `await` in between; only a call that reaches a provider call
\* is kept in `cycles`.
processQueue ==
    IF isProcessing \/ ~lingoDotDev
        THEN UNCHANGED <<isProcessing, cycles, cyclesStarted>>
    ELSE IF runQueueFrom(articles, 1, <<>>).pc = "done"
        THEN /\ isProcessing' = FALSE
             /\ UNCHANGED <<cycles, cyclesStarted>>
        ELSE /\ cyclesStarted < MaxCycles
             /\ cycles' = [cycles EXCEPT ![cyclesStarted + 1] =
                                Began(runQueueFrom(articles, 1, <<>>),
                                      {articles[i].id : i \in DOMAIN articles})]
             /\ isProcessing' = TRUE
             /\ cyclesStarted' = cyclesStarted + 1

\* The setInterval timer of line 185 fires.
IntervalFires ==
    /\ liveIntervals > 0
    /\ processQueue
    /\ UNCHANGED <<feeds, storeVars, metricsLog, schedulerVars, now, timerVars, wakeTimers,
                   lingoDotDev, callVars>>

\* The setTimeout timer of line 188 fires.
InitialTimerFires ==
    /\ initialTimers > 0
    /\ initialTimers' = initialTimers - 1
    /\ processQueue
    /\ UNCHANGED <<feeds, storeVars, metricsLog, schedulerVars, now, processInterval,
                   liveIntervals, wakeTimers, lingoDotDev, callVars>>

\* The setTimeout timer of line 306 fires.
WakeFires ==
    /\ wakeTimers > 0
    /\ wakeTimers' = wakeTimers - 1
    /\ processQueue
    /\ UNCHANGED <<feeds, storeVars, metricsLog, schedulerVars, now, timerVars, lingoDotDev,
                   callVars>>

\* A variant that goes on with the next batch without the delay.
AfterBatch_NoDelay(c, arts, event) ==
    LET cycle == cycles[c]
        traced == Append(cycle.trace, event)
        next == IF cycle.i + BATCH_SIZE < Len(cycle.needs)
                    THEN [cycle EXCEPT !.i = @ + BATCH_SIZE, !.trace = traced]
                    ELSE Began(runQueueFrom(arts, cycle.locale + 1, traced),
                               cycle.idsAtStart)
    IN  /\ cycles' = [cycles EXCEPT ![c] = next]
        /\ isProcessing' = IF next.pc = "done" THEN FALSE ELSE isProcessing

\* A variant that leaves a finished cycle without resetting isProcessing.
AfterBatch_NoFinally(c, arts, event) ==
    LET cycle == cycles[c]
        traced == Append(cycle.trace, event)
        next == IF cycle.i + BATCH_SIZE < Len(cycle.needs)
                    THEN [cycle EXCEPT !.pc = "sleep",
                            !.trace = Append(traced,
                                Event("sleep", ENABLED_LOCALES[cycle.locale], <<>>, NoKeys))]
                    ELSE Began(runQueueFrom(arts, cycle.locale + 1, traced),
                               cycle.idsAtStart)
    IN  /\ cycles' = [cycles EXCEPT ![c] = next]
        /\ isProcessing' = isProcessing

\* Lines 224-233 after translateBatch returned: sleep before the next batch
\* of the locale, or go on with the next locale, or leave through `finally`.
AfterBatch(c, arts, event) ==
    LET cycle == cycles[c]
        traced == Append(cycle.trace, event)
        next == IF cycle.i + BATCH_SIZE < Len(cycle.needs)
                    THEN [cycle EXCEPT !.pc = "sleep",
                            !.trace = Append(traced,
                                Event("sleep", ENABLED_LOCALES[cycle.locale], <<>>, NoKeys))]
                    ELSE Began(runQueueFrom(arts, cycle.locale + 1, traced),
                               cycle.idsAtStart)
    IN  /\ cycles' = [cycles EXCEPT ![c] = next]
        /\ isProcessing' = IF next.pc = "done" THEN FALSE ELSE isProcessing

\* Line 253 resolves and lines 258-269 store the batch.
ProviderResolves(c, keys) ==
    /\ cycles[c].pc = "translate"
    /\ articles' = storeBatch(articles, batchOf(cycles[c]),
                              ENABLED_LOCALES[cycles[c].locale], keys, now)
    /\ AfterBatch(c, articles', Event("resolved", ENABLED_LOCALES[cycles[c].locale],
                                      batchOf(cycles[c]), keys))
    /\ UNCHANGED <<feeds, feedCache, metricsLog, schedulerVars, now, timerVars, wakeTimers,
                   lingoDotDev, cyclesStarted, callVars>>

\* A variant in which the call fails after the entry of the first article
\* of the batch was stored.
ProviderRejects_AfterFirstStore(c) ==
    /\ cycles[c].pc = "translate"
    /\ articles' = storeBatch(articles, <<Head(batchOf(cycles[c]))>>,
                              ENABLED_LOCALES[cycles[c].locale], FullKeys, now)
    /\ AfterBatch(c, articles', Event("rejected", ENABLED_LOCALES[cycles[c].locale],
                                      batchOf(cycles[c]), NoKeys))
    /\ UNCHANGED <<feeds, feedCache, metricsLog, schedulerVars, now, timerVars, wakeTimers,
                   lingoDotDev, cyclesStarted, callVars>>

\* A variant in which the failure of a batch ends the cycle.
ProviderRejects_EndsCycle(c) ==
    /\ cycles[c].pc = "translate"
    /\ cycles' = [cycles EXCEPT ![c] =
            Began([pc |-> "done",
                   trace |-> Append(cycles[c].trace,
                                    Event("rejected", ENABLED_LOCALES[cycles[c].locale],
                                          batchOf(cycles[c]), NoKeys))],
                  cycles[c].idsAtStart)]
    /\ isProcessing' = FALSE
    /\ UNCHANGED <<feeds, storeVars, metricsLog, schedulerVars, now, timerVars, wakeTimers,
                   lingoDotDev, cyclesStarted, callVars>>

\* Line 253 rejects, or the response is no object: lines 270-275.
ProviderRejects(c) ==
    /\ cycles[c].pc = "translate"
    /\ AfterBatch(c, articles, Event("rejected", ENABLED_LOCALES[cycles[c].locale],
                                     batchOf(cycles[c]), NoKeys))
    /\ UNCHANGED <<feeds, storeVars, metricsLog, schedulerVars, now, timerVars, wakeTimers,
                   lingoDotDev, cyclesStarted, callVars>>

\* The provider calls that failed so far.
Rejections ==
    UNION {{<<c, k>> : k \in {q \in DOMAIN cycles[c].trace :
                                cycles[c].trace[q].ev = "rejected"}} :
           c \in {d \in CycleIds : cycles[d].pc # "none"}}

\* Line 253 rejects, in a run in which only some calls fail.
ProviderRejectsAtTimes(c) ==
    /\ Cardinality(Rejections) < MaxRejects
    /\ ProviderRejects(c)

\* Line 225 resolves: the next batch of the locale is sent.
SleepResolves(c) ==
    /\ cycles[c].pc = "sleep"
    /\ cycles' = [cycles EXCEPT ![c] =
                    [@ EXCEPT !.pc = "translate", !.i = @ + BATCH_SIZE]]
    /\ UNCHANGED <<feeds, storeVars, metricsLog, schedulerVars, now, timerVars, wakeTimers,
                   lingoDotDev, isProcessing, cyclesStarted, callVars>>

----
\* Direct calls of the interface of db.ts and metrics.ts.

NoCall == [op |-> "none"]

\* scheduler.ts lines 150-192: one item is turned into an article and
\* upserted.
IngestItem(item, feedIx) ==
    /\ now < MaxCalls
    /\ ~cleanHtmlThrows(titleOf(item))
    /\ ~cleanHtmlThrows(descriptionOf(item))
    /\ LET article == buildArticle(item, feeds[feedIx], now)
           r == upsertArticle(articles, article)
       IN  /\ articles' = r.articles
           /\ lastCall' = [op |-> "upsertArticle", article |-> article,
                           returned |-> r.isNew,
                           first |-> article.id \notin upserted]
           /\ upserted' = upserted \cup {article.id}
    /\ now' = now + 1
    /\ UNCHANGED <<feeds, feedCache, metricsLog, schedulerVars, timerVars, wakeTimers, queueVars>>

\* db.ts lines 91-105, called as the exported function.
StoreTranslationCall(articleId, locale, title, description) ==
    /\ articles' = storeTranslation(articles, articleId, locale, title, description, now)
    /\ lastCall' = [op |-> "storeTranslation", articleId |-> articleId,
                    locale |-> locale, title |-> title, description |-> description]
    /\ UNCHANGED <<feeds, feedCache, metricsLog, schedulerVars, now, timerVars, wakeTimers,
                   queueVars, upserted>>

\* db.ts lines 82-86, called as the exported function with a locale code.
GetUntranslatedCall(locale) ==
    /\ lastCall' = [op |-> "getUntranslatedArticles", locale |-> locale,
                    returned |-> getUntranslatedArticles(articles, locale)]
    /\ UNCHANGED <<feeds, storeVars, metricsLog, schedulerVars, now, timerVars, wakeTimers,
                   queueVars, upserted>>

\* translator.ts lines 286-299: without the engine the call throws, which
\* rejects the promise of the async function before anything is sent;
\* with the engine the texts go to the provider.
translateOnDemand(engine) ==
    IF ~engine
        THEN [outcome |-> "rejected",
              error |-> Str(<<"Translation engine not initialized">>)]
        ELSE [outcome |-> "forwarded", error |-> Undef]

\* translateOnDemand called as the exported function.
TranslateOnDemandCall ==
    /\ lastCall' = [op |-> "translateOnDemand",
                    outcome |-> translateOnDemand(lingoDotDev).outcome,
                    error |-> translateOnDemand(lingoDotDev).error]
    /\ UNCHANGED <<feeds, storeVars, metricsLog, schedulerVars, now, timerVars, wakeTimers,
                   queueVars, upserted>>

\* The metric of the n-th fetch attempt of a long run: the feeds take
\* turns, and so do the outcomes.
MetricAt(n) ==
    LET feed == feeds[(n % Len(feeds)) + 1]
        kind == n % (Len(feeds) + 1)
    IN  Metric(feed, n, n, IF kind = 0 THEN 1 ELSE 0, IF kind = 0 THEN 1 ELSE 0,
               kind = 1,
               IF kind = 2 THEN Str(<<"HTTP 500: Internal Server Error">>) ELSE Undef)

\* metrics.ts lines 18-24: the next fetch attempt of a long run is logged.
LogNextMetric ==
    /\ now < MaxLogged
    /\ metricsLog' = logFetchMetric(metricsLog, MetricAt(now))
    /\ now' = now + 1
    /\ UNCHANGED <<feeds, storeVars, schedulerVars, timerVars, wakeTimers, queueVars, callVars>>

----
\* The state of the process once its modules are loaded, with `catalog` as
\* RSS_FEEDS.
InitWith(catalog) ==
    /\ feeds = catalog
    /\ articles = <<>>
    /\ feedCache = << >>
    /\ metricsLog = <<>>
    /\ cronTasks = <<>>
    /\ fetches = [f \in FetchIds |-> NoFetch]
    /\ attempts = 0
    /\ now = 0
    /\ lingoDotDev = FALSE
    /\ processInterval = FALSE
    /\ liveIntervals = 0
    /\ initialTimers = 0
    /\ wakeTimers = 0
    /\ isProcessing = FALSE
    /\ cycles = [c \in CycleIds |-> NoCycle]
    /\ cyclesStarted = 0
    /\ lastCall = NoCall
    /\ upserted = {}

\* A catalog of one feed.
Init == InitWith(<<RSS_FEEDS[1]>>)

\* The scheduler and the fetch pipeline of a server started without
\* LINGODOTDEV_API_KEY (index.ts: initTranslationQueue is never called).
Next ==
    \/ startScheduler
    \/ \E k \in 1..Len(cronTasks) : CronTick(k)
    \/ \E f \in FetchIds :
         \/ \E m \in {"The operation was aborted due to timeout", "fetch failed"} :
                 FetchRejects(f, m)
         \/ Respond304(f)
         \/ RespondError(f)
         \/ \E e \in HeaderValues("e"), m \in HeaderValues("m") : RespondOk(f, e, m)
         \/ ParseRejects(f, "Non-whitespace before first tag.")
         \/ \E r \in ParsedResults : ParseResolves(f, r)
    \/ WakeFires

Spec == Init /\ [][Next]_vars

\* The interface of db.ts called directly.
InitStore == InitWith(RSS_FEEDS)

NextStore ==
    \/ \E item \in Items, feedIx \in FeedIndex : IngestItem(item, feedIx)
    \/ \E id \in {<<"a">>, <<"b">>}, locale \in {"ar", "fr"} :
         StoreTranslationCall(id, locale, <<"t">>, <<"d">>)

SpecStore == InitStore /\ [][NextStore]_vars

\* A long run of fetch attempts, seen from the metrics log.
InitMetrics == InitWith(RSS_FEEDS)

NextMetrics == LogNextMetric

SpecMetrics == InitMetrics /\ [][NextMetrics]_vars

\* The whole server, started with LINGODOTDEV_API_KEY (index.ts: the queue
\* is initialised before the scheduler starts): the scheduler, the pipeline
\* on feeds that answer 200, the translation queue, and direct
\* storeTranslation calls.
InitQueue == InitWith(<<RSS_FEEDS[1]>>)

NextQueue ==
    \/ initTranslationQueue
    \/ lingoDotDev /\ startScheduler
    \/ \E k \in 1..Len(cronTasks) : CronTick(k)
    \/ \E f \in FetchIds :
         \/ RespondOk(f, Null, Null)
         \/ \E r \in {Rss("single", <<ItemA>>), Rss("single", <<ItemA2>>),
                      Rss("array", <<ItemX, ItemA2>>)} : ParseResolves(f, r)
    \/ IntervalFires
    \/ InitialTimerFires
    \/ WakeFires
    \/ \E c \in CycleIds :
         \/ \E keys \in {FullKeys, Keys({"title"}, {"title"})} : ProviderResolves(c, keys)
         \/ ProviderRejects(c)
    \/ StoreTranslationCall(<<"a">>, "ar", <<"t">>, <<"d">>)

SpecQueue == InitQueue /\ [][NextQueue]_vars

\* The server started with LINGODOTDEV_API_KEY and both feeds, which carry
\* one item, a full batch of items, or more than a batch.
InitBatch == InitWith(RSS_FEEDS)

NextBatch ==
    \/ initTranslationQueue
    \/ lingoDotDev /\ startScheduler
    \/ \E f \in FetchIds :
         \/ RespondOk(f, Null, Null)
         \/ \E r \in {Rss("single", <<ItemX>>), ManyItems(BATCH_SIZE),
                      ManyItems(BATCH_SIZE + 5)} : ParseResolves(f, r)
    \/ IntervalFires
    \/ InitialTimerFires
    \/ WakeFires
    \/ \E c \in CycleIds :
         \/ \E keys \in {FullKeys, Keys({"desc"}, {"title"})} : ProviderResolves(c, keys)
         \/ ProviderRejects(c)
         \/ SleepResolves(c)

SpecBatch == InitBatch /\ [][NextBatch]_vars

\* Two articles are ingested, translations are stored for known and unknown
\* ids, for one article in two locales and a second time with another
\* text, and the articles lacking a locale are asked for.
InitTranslations == InitWith(<<RSS_FEEDS[1]>>)

NextTranslations ==
    \/ \E item \in {ItemA, ItemX} : IngestItem(item, 1)
    \/ \E call \in {<<<<"a">>, "ar", <<"t">>>>, <<<<"a">>, "ar", <<"u">>>>,
                     <<<<"a">>, "fr", <<"t">>>>, <<Sha256(<<"x">>), "ar", <<"t">>>>,
                     <<<<"b">>, "ar", <<"t">>>>} :
         StoreTranslationCall(call[1], call[2], call[3], <<"d">>)
    \/ \E locale \in {ENABLED_LOCALES[k] : k \in DOMAIN ENABLED_LOCALES} \cup {"fr"} :
         GetUntranslatedCall(locale)

SpecTranslations == InitTranslations /\ [][NextTranslations]_vars

\* The server started with LINGODOTDEV_API_KEY on a feed of two items, with
\* a provider that fails at times. The interval timer of line 185 keeps
\* firing, and a provider call that is under way ends: with the response,
\* unless it is one of the calls that fail.
InitConverge == InitWith(<<RSS_FEEDS[1]>>)

NextConverge ==
    \/ initTranslationQueue
    \/ lingoDotDev /\ startScheduler
    \/ \E k \in 1..Len(cronTasks) : CronTick(k)
    \/ \E f \in FetchIds :
         \/ RespondOk(f, Null, Null)
         \/ ParseResolves(f, Rss("array", <<ItemX, ItemA2>>))
    \/ IntervalFires
    \/ InitialTimerFires
    \/ WakeFires
    \/ \E c \in CycleIds :
         \/ ProviderResolves(c, FullKeys)
         \/ ProviderRejectsAtTimes(c)

SpecConverge ==
    /\ InitConverge
    /\ [][NextConverge]_vars
    /\ WF_vars(IntervalFires)
    /\ \A c \in CycleIds : WF_vars(ProviderResolves(c, FullKeys))

\* The server started with or without LINGODOTDEV_API_KEY (index.ts lines
\* 136-144: the queue is initialised, if at all, before the scheduler
\* starts), with feeds that fail or answer 200, and with on-demand calls.
EitherPayloads == {Rss("single", <<ItemA>>), Rss("array", <<ItemX, ItemA2>>)}

InitEither == InitWith(<<RSS_FEEDS[1]>>)

NextEither ==
    \/ attempts = 0 /\ initTranslationQueue
    \/ startScheduler
    \/ \E k \in 1..Len(cronTasks) : CronTick(k)
    \/ \E f \in FetchIds :
         \/ FetchRejects(f, "fetch failed")
         \/ RespondOk(f, Null, Null)
         \/ \E r \in EitherPayloads : ParseResolves(f, r)
    \/ IntervalFires
    \/ InitialTimerFires
    \/ WakeFires
    \/ \E c \in CycleIds :
         \/ ProviderResolves(c, FullKeys)
         \/ ProviderRejects(c)
    \/ TranslateOnDemandCall

SpecEither == InitEither /\ [][NextEither]_vars

\* The scheduler of a server without LINGODOTDEV_API_KEY, stopped at any
\* moment: before it was started, while fetches are in flight, or again.
InitStop == InitWith(<<RSS_FEEDS[1]>>)

NextStop ==
    \/ startScheduler
    \/ stopScheduler
    \/ \E k \in 1..Len(cronTasks) : CronTick(k)
    \/ \E f \in FetchIds :
         \/ FetchRejects(f, "fetch failed")
         \/ RespondOk(f, Null, Null)
         \/ ParseResolves(f, Rss("single", <<ItemA>>))
    \/ WakeFires

SpecStop == InitStop /\ [][NextStop]_vars

\* The scheduler of a server without LINGODOTDEV_API_KEY, built with one
\* feed or with two, whose fetches fail in every way or succeed.
IsolationPayloads == {Rss("single", <<ItemA>>), Atom("array", <<ItemA, ItemB>>)}

InitIsolation == \E catalog \in {<<RSS_FEEDS[1]>>, RSS_FEEDS} : InitWith(catalog)

NextIsolation ==
    \/ startScheduler
    \/ \E k \in 1..Len(cronTasks) : CronTick(k)
    \/ \E f \in FetchIds :
         \/ FetchRejects(f, "The operation was aborted due to timeout")
         \/ RespondError(f)
         \/ RespondOk(f, Null, Null)
         \/ ParseRejects(f, "Non-whitespace before first tag.")
         \/ \E r \in IsolationPayloads : ParseResolves(f, r)
    \/ WakeFires

SpecIsolation == InitIsolation /\ [][NextIsolation]_vars

\* The server started with LINGODOTDEV_API_KEY, with a feed that answers
\* 200 and a provider that never answers: the first provider call stays
\* pending for good. A response of the feed arrives within the 15 s of
\* AbortSignal.timeout, and parseStringPromise ends.
DecoupledPayloads == {Rss("single", <<ItemA>>), Rss("array", <<ItemX, ItemA2>>)}

InitDecoupled == InitWith(<<RSS_FEEDS[1]>>)

NextDecoupled ==
    \/ initTranslationQueue
    \/ lingoDotDev /\ startScheduler
    \/ \E k \in 1..Len(cronTasks) : CronTick(k)
    \/ \E f \in FetchIds :
         \/ RespondOk(f, Null, Null)
         \/ \E r \in DecoupledPayloads : ParseResolves(f, r)
    \/ IntervalFires
    \/ InitialTimerFires
    \/ WakeFires

SpecDecoupled ==
    /\ InitDecoupled
    /\ [][NextDecoupled]_vars
    /\ WF_vars(\E f \in FetchIds : RespondOk(f, Null, Null))
    /\ WF_vars(\E f \in FetchIds, r \in DecoupledPayloads : ParseResolves(f, r))

\* The scheduler of a server without LINGODOTDEV_API_KEY and the responses
\* of one feed, seen from the conditional cache: 200 or an error status
\* with or without validator headers (an ETag header may be empty or
\* change from one response to the next), or 304.
EtagHeaders == {Null, Str(<<>>), Str(<<"e">>), Str(<<"f">>)}

LastModifiedHeaders == HeaderValues("m")

InitCache == InitWith(<<RSS_FEEDS[1]>>)

NextCache ==
    \/ startScheduler
    \/ \E k \in 1..Len(cronTasks) : CronTick(k)
    \/ \E f \in FetchIds :
         \/ Respond304(f)
         \/ \E e \in EtagHeaders, m \in LastModifiedHeaders : RespondErrorWith(f, e, m)
         \/ \E e \in EtagHeaders, m \in LastModifiedHeaders : RespondOk(f, e, m)
         \/ ParseResolves(f, Rss("absent", <<>>))

SpecCache == InitCache /\ [][NextCache]_vars

\* The scheduler of a server without LINGODOTDEV_API_KEY and feeds that
\* answer 200 with a body of any kind: no XML at all, a document with
\* another root and nothing the code looks at, an RSS 1.0 document (root
\* rdf:RDF with item elements), an RSS 2.0 channel or an Atom feed without
\* items, or one with items.
OtherShape(wrap, nodes) == [shape |-> "other", wrap |-> wrap, nodes |-> nodes]

ShapePayloads ==
    {OtherShape("absent", <<>>), OtherShape("array", <<ItemA, ItemX>>),
     Rss("absent", <<>>), Rss("single", <<ItemA>>),
     Atom("absent", <<>>), Atom("array", <<ItemX, ItemA>>)}

InitShapes == InitWith(<<RSS_FEEDS[1]>>)

NextShapes ==
    \/ startScheduler
    \/ \E k \in 1..Len(cronTasks) : CronTick(k)
    \/ \E f \in FetchIds :
         \/ RespondOk(f, Null, Null)
         \/ ParseRejects(f, "Non-whitespace before first tag.")
         \/ \E r \in ShapePayloads : ParseResolves(f, r)
    \/ WakeFires

SpecShapes == InitShapes /\ [][NextShapes]_vars

\* The server started with LINGODOTDEV_API_KEY and one feed or both, each
\* of which answers 200 with new items: the fetches of one pass run side
\* by side and end within the delay of the wake timer.
WakePayloads == {Rss("single", <<ItemA>>), Rss("array", <<ItemX, ItemA2>>)}

InitWake == \E catalog \in {<<RSS_FEEDS[1]>>, RSS_FEEDS} : InitWith(catalog)

NextWake ==
    \/ initTranslationQueue
    \/ lingoDotDev /\ startScheduler
    \/ \E k \in 1..Len(cronTasks) : CronTick(k)
    \/ \E f \in FetchIds :
         \/ RespondOk(f, Null, Null)
         \/ \E r \in WakePayloads : ParseResolves(f, r)
    \/ IntervalFires
    \/ InitialTimerFires
    \/ WakeFires
    \/ \E c \in CycleIds : ProviderResolves(c, FullKeys)

SpecWake == InitWake /\ [][NextWake]_vars

\* The server started with LINGODOTDEV_API_KEY, up to the first periodic
\* tick, and a feed of one item or of more than a batch; every provider
\* call returns or fails, and every sleep between two batches ends.
CyclePayloads == {Rss("single", <<ItemA>>), ManyItems(BATCH_SIZE + 1)}

InitCycle == InitWith(<<RSS_FEEDS[1]>>)

NextCycle ==
    \/ initTranslationQueue
    \/ lingoDotDev /\ startScheduler
    \/ \E f \in FetchIds :
         \/ RespondOk(f, Null, Null)
         \/ \E r \in CyclePayloads : ParseResolves(f, r)
    \/ IntervalFires
    \/ InitialTimerFires
    \/ WakeFires
    \/ \E c \in CycleIds :
         \/ ProviderResolves(c, FullKeys)
         \/ ProviderRejects(c)
         \/ SleepResolves(c)

SpecCycle ==
    /\ InitCycle
    /\ [][NextCycle]_vars
    /\ WF_vars(\E c \in CycleIds : ProviderRejects(c) \/ ProviderResolves(c, FullKeys))
    /\ WF_vars(\E c \in CycleIds : SleepResolves(c))

\* The scheduler of a server without LINGODOTDEV_API_KEY and one feed that
\* answers every request with the same document: the first feed an RSS 2.0
\* channel of two items, the second an Atom feed whose second entry carries
\* <summary type="html">. A periodic tick may fire while the fetch before
\* it is still under way.
DocumentOf(feed) ==
    IF feed.url = RSS_FEEDS[1].url
        THEN Rss("array", <<ItemA, ItemX>>)
        ELSE Atom("array", <<ItemA, ItemB>>)

InitOverlap == \E i \in DOMAIN RSS_FEEDS : InitWith(<<RSS_FEEDS[i]>>)

NextOverlap ==
    \/ startScheduler
    \/ \E k \in 1..Len(cronTasks) : CronTick(k)
    \/ \E f \in FetchIds :
         \/ FetchRejects(f, "fetch failed")
         \/ \E e \in HeaderValues("e") : RespondOk(f, e, Null)
         \/ Respond304(f)
         \/ fetches[f].pc = "parse" /\ ParseResolves(f, DocumentOf(feeds[fetches[f].feed]))
    \/ WakeFires

SpecOverlap == InitOverlap /\ [][NextOverlap]_vars

\* The scheduler of a server without LINGODOTDEV_API_KEY whose
\* startScheduler and stopScheduler are called in any order, any number of
\* times.
InitRestart == InitWith(<<RSS_FEEDS[1]>>)

NextRestart ==
    \/ StartSchedulerCall
    \/ stopScheduler
    \/ \E k \in 1..Len(cronTasks) : CronTick(k)
    \/ \E f \in FetchIds :
         \/ FetchRejects(f, "fetch failed")
         \/ RespondOk(f, Null, Null)
         \/ ParseResolves(f, Rss("single", <<ItemA>>))
    \/ WakeFires

SpecRestart == InitRestart /\ [][NextRestart]_vars

\* The server with one feed whose initTranslationQueue and
\* stopTranslationQueue are called in any order.
InitRequeue == InitWith(<<RSS_FEEDS[1]>>)

NextRequeue ==
    \/ InitTranslationQueueCall
    \/ stopTranslationQueue
    \/ lingoDotDev /\ startScheduler
    \/ \E k \in 1..Len(cronTasks) : CronTick(k)
    \/ \E f \in FetchIds :
         \/ RespondOk(f, Null, Null)
         \/ ParseResolves(f, Rss("single", <<ItemA>>))
    \/ IntervalFires
    \/ InitialTimerFires
    \/ WakeFires
    \/ \E c \in CycleIds : ProviderResolves(c, FullKeys)

SpecRequeue == InitRequeue /\ [][NextRequeue]_vars

----
\* Properties of the article store (SpecStore).

\* The positions of the store that hold an article with this id.
StoredAt(id) == {i \in DOMAIN articles : articles[i].id = id}

\* The guid is a string with a character that is no whitespace.
HasText(guid) == guid.t = "string" /\ \E k \in DOMAIN guid.v : guid.v[k] # " "

\* id is s without its leading and trailing whitespace.
IsTrimOf(id, s) ==
    \E i, j \in DOMAIN s :
        /\ i <= j
        /\ s[i] # " "
        /\ s[j] # " "
        /\ \A k \in DOMAIN s : (k < i \/ k > j) => s[k] = " "
        /\ id = SubSeq(s, i, j)

\* C1: whatever was called in between, the store holds exactly one article
\* for every id upsertArticle was called with; the first call with an id
\* returns true and every later call with it returns false.
C1_IdempotentUpsert ==
    /\ \A id \in upserted : Cardinality(StoredAt(id)) = 1
    /\ lastCall.op = "upsertArticle" => lastCall.returned = lastCall.first

\* A later call with the id of a stored, already translated article, with
\* other content than the stored one.
C1_Witness ==
    /\ lastCall.op = "upsertArticle"
    /\ ~lastCall.first
    /\ \E i \in StoredAt(lastCall.article.id) :
            /\ articles[i].link # lastCall.article.link
            /\ DOMAIN articles[i].translations # {}

\* The id the derivation rule gives an article with this guid and link.
IdAsSpecified(a) ==
    IF HasText(a.guid) THEN IsTrimOf(a.id, a.guid.v) ELSE a.id = Sha256(a.link)

\* C3: the id of an article is the trimmed guid when the guid has text, and
\* the hash of the link otherwise; the same (guid, link) gives the same id,
\* and so do two items without guid text and with the same link.
C3_DeterministicIdentity ==
    /\ \A i \in DOMAIN articles : IdAsSpecified(articles[i])
    /\ lastCall.op = "upsertArticle" =>
            /\ IdAsSpecified(lastCall.article)
            /\ \A i \in DOMAIN articles :
                    /\ (articles[i].guid = lastCall.article.guid
                            /\ articles[i].link = lastCall.article.link)
                        => articles[i].id = lastCall.article.id
                    /\ (~HasText(articles[i].guid) /\ ~HasText(lastCall.article.guid)
                            /\ articles[i].link = lastCall.article.link)
                        => articles[i].id = lastCall.article.id

\* An item with a blank guid met the stored item without guid and with the
\* same link, while an article whose guid was trimmed is stored.
C3_Witness ==
    /\ lastCall.op = "upsertArticle"
    /\ lastCall.article.guid = Str(<<" ">>)
    /\ ~lastCall.returned
    /\ \E i \in StoredAt(lastCall.article.id) : articles[i].guid = Null
    /\ \E j \in DOMAIN articles :
            articles[j].guid = Str(<<" ", "a", " ">>) /\ articles[j].id = <<"a">>

\* C4 as stated: an item never has the id of a stored item with another
\* link, so it is never dropped as its duplicate, whatever the guids are.
C4_NoCollisionWhateverGuids ==
    lastCall.op = "upsertArticle" =>
        \A i \in DOMAIN articles :
            articles[i].link # lastCall.article.link
                => articles[i].id # lastCall.article.id

\* C4, amended: two items with distinct links of which neither has guid
\* text never have the same id, and such an item is dropped only as the
\* duplicate of an item with its own link; two items whose guids trim to the
\* same text have the same id whatever their links, and the later is dropped.
C4_NoCollisionWithoutGuid ==
    lastCall.op = "upsertArticle" =>
        /\ \A i \in DOMAIN articles :
                /\ (~HasText(articles[i].guid) /\ ~HasText(lastCall.article.guid)
                        /\ articles[i].link # lastCall.article.link)
                    => articles[i].id # lastCall.article.id
                /\ (HasText(articles[i].guid) /\ HasText(lastCall.article.guid)
                        /\ \E t \in {articles[i].id} :
                                /\ IsTrimOf(t, articles[i].guid.v)
                                /\ IsTrimOf(t, lastCall.article.guid.v))
                    => articles[i].id = lastCall.article.id
        /\ (~HasText(lastCall.article.guid) /\ ~lastCall.returned)
            => \E i \in StoredAt(lastCall.article.id) :
                    articles[i].link = lastCall.article.link

\* An item without guid text was inserted next to a stored one that has
\* another link and comes from another feed.
C4_Witness ==
    /\ lastCall.op = "upsertArticle"
    /\ ~HasText(lastCall.article.guid)
    /\ lastCall.returned
    /\ \E i \in DOMAIN articles :
            /\ ~HasText(articles[i].guid)
            /\ articles[i].link # lastCall.article.link
            /\ articles[i].source # lastCall.article.source

----
\* Properties of the whole server (SpecQueue).

\* An article without its translations.
Core(a) == [a EXCEPT !.translations = NoTranslations]

\* C2: no step changes a field other than translations of a stored article
\* or takes a stored translation away, and the step in which a poll
\* processes its items changes nothing at all of the articles stored before.
C2_StoredArticlesImmutable ==
    [][/\ \A i \in DOMAIN articles :
            /\ i \in DOMAIN articles'
            /\ Core(articles'[i]) = Core(articles[i])
            /\ DOMAIN articles[i].translations \subseteq DOMAIN articles'[i].translations
       /\ (\E f \in FetchIds : fetches[f].pc = "parse" /\ fetches'[f].pc = "done")
            => \A i \in DOMAIN articles : articles'[i] = articles[i]]_vars

\* The first item with guid a is stored and translated, and a later poll
\* carried the item with the same id and another title and link.
C2_Witness ==
    /\ \E i \in StoredAt(<<"a">>) :
            /\ articles[i].link = <<"x">>
            /\ "ar" \in DOMAIN articles[i].translations
            /\ \E f \in FetchIds :
                    /\ fetches[f].pc = "done"
                    /\ fetches[f].metric.totalArticlesInFeed = 2
                    /\ fetches[f].metric.articlesAdded = 1
                    /\ fetches[f].metric.timestamp > articles[i].ingestedAt

----
\* Properties of the fetch pipeline (Spec).

DoneFetches == {f \in FetchIds : fetches[f].pc = "done"}

\* C5: the step that begins an attempt and the step in which it receives
\* 304 leave the article store and the conditional cache as they were; the
\* second appends the attempt's metric and changes nothing else.
C5_NotModifiedFrame ==
    [][\A f \in FetchIds :
        /\ (fetches[f].pc = "none" /\ fetches'[f].pc = "fetch")
            => UNCHANGED <<articles, feedCache, metricsLog>>
        /\ (fetches[f].pc = "fetch" /\ fetches'[f].pc = "done"
                /\ fetches'[f].outcome = "notModified")
            => /\ articles' = articles
               /\ feedCache' = feedCache
               /\ metricsLog' = Append(metricsLog, fetches'[f].metric)
               /\ UNCHANGED <<cronTasks, attempts, timerVars, wakeTimers, queueVars>>]_vars

\* An attempt received 304 while the store and the cache were not empty.
C5_Witness ==
    /\ articles # <<>>
    /\ DOMAIN feedCache # {}
    /\ \E f \in DoneFetches : fetches[f].outcome = "notModified"

\* C6: the metric of an attempt that received 304 has skipped304 true,
\* articlesAdded 0, totalArticlesInFeed 0 and no error, its promise is
\* fulfilled, and the summary counts it as a skip and counts as failures
\* only the attempts that ended in the catch block.
C6_NotModifiedIsSuccess ==
    /\ \A f \in DoneFetches :
            fetches[f].outcome = "notModified" =>
                /\ fetches[f].metric.skipped304 = TRUE
                /\ fetches[f].metric.articlesAdded = 0
                /\ fetches[f].metric.totalArticlesInFeed = 0
                /\ fetches[f].metric.error = Undef
                /\ fetches[f].promise = "fulfilled"
                /\ \E i \in DOMAIN metricsLog : metricsLog[i] = fetches[f].metric
    /\ getMetrics(metricsLog).totalFailures =
            Cardinality({f \in DoneFetches : fetches[f].outcome \in
                {"httpError", "fetchRejected", "bodyRejected", "itemRaised"}})
    /\ getMetrics(metricsLog).total304Skips =
            Cardinality({f \in DoneFetches : fetches[f].outcome = "notModified"})

\* Two attempts are over, one of them with 304, and the summary has no failure.
C6_Witness ==
    /\ \E f \in DoneFetches : fetches[f].outcome = "notModified"
    /\ getMetrics(metricsLog).totalFetches = 2
    /\ getMetrics(metricsLog).totalFailures = 0
    /\ getMetrics(metricsLog).total304Skips = 1

\* The dedup ids of the items of a payload.
PayloadIds(result) ==
    {generateArticleId(rawGuidOf(itemsOf(result)[k]), linkOf(itemsOf(result)[k])) :
        k \in DOMAIN itemsOf(result)}

StoredIds(arts) == {arts[i].id : i \in DOMAIN arts}

\* The step in which attempt f processes payload r to the end.
Completes(f, r) == ParseResolves(f, r) /\ fetches'[f].outcome = "stored"

\* C7 as stated: articlesAdded is the number of ids of the payload that the
\* store did not hold when the attempt began, and the count has grown by
\* articlesAdded since then.
C7_CountsAgainstAttemptStart ==
    [][\A f \in FetchIds, r \in ParsedResults :
        Completes(f, r) =>
            /\ fetches'[f].metric.totalArticlesInFeed = Len(itemsOf(r))
            /\ fetches'[f].metric.articlesAdded =
                    Cardinality(PayloadIds(r) \ fetches[f].idsAtStart)
            /\ getArticleCount(articles') =
                    Cardinality(fetches[f].idsAtStart) + fetches'[f].metric.articlesAdded]_vars

\* C7, amended: totalArticlesInFeed is the number of items of the payload,
\* articlesAdded is the number of ids of the payload that the store did not
\* hold when the attempt came to process its items, and that step makes the
\* count grow by articlesAdded.
C7_CountsAgainstStoreAtProcessing ==
    [][\A f \in FetchIds, r \in ParsedResults :
        Completes(f, r) =>
            /\ fetches'[f].metric.totalArticlesInFeed = Len(itemsOf(r))
            /\ fetches'[f].metric.articlesAdded =
                    Cardinality(PayloadIds(r) \ StoredIds(articles))
            /\ getArticleCount(articles') =
                    getArticleCount(articles) + fetches'[f].metric.articlesAdded
            /\ StoredIds(articles') = StoredIds(articles) \cup PayloadIds(r)]_vars

\* The first poll brought three new items: count 3, one metric, articlesAdded 3.
C7_Witness ==
    /\ getArticleCount(articles) = 3
    /\ Len(metricsLog) = 1
    /\ metricsLog[1].articlesAdded = 3
    /\ metricsLog[1].totalArticlesInFeed = 3
    /\ \E f \in DoneFetches : fetches[f].outcome = "stored"

\* C8: the step in which an attempt meets an error status, the timeout or a
\* network failure appends a metric with an error text, articlesAdded 0
\* and skipped304 false, fulfils the promise of the attempt, touches no
\* article, and leaves the cron task of the feed registered.
C8_TransportFailuresAbsorbed ==
    [][\A f \in FetchIds :
        (fetches[f].pc = "fetch" /\ fetches'[f].pc = "done"
            /\ fetches'[f].outcome \in {"httpError", "fetchRejected"})
        => /\ fetches'[f].metric.error.t = "string"
           /\ fetches'[f].metric.error.v # <<>>
           /\ fetches'[f].metric.articlesAdded = 0
           /\ fetches'[f].metric.skipped304 = FALSE
           /\ metricsLog' = Append(metricsLog, fetches'[f].metric)
           /\ fetches'[f].promise = "fulfilled"
           /\ articles' = articles
           /\ cronTasks' = cronTasks
           /\ \E k \in DOMAIN cronTasks' : cronTasks'[k] = fetches'[f].feed]_vars

\* One attempt met an error status and another one the timeout.
C8_Witness ==
    \E f, g \in DoneFetches :
        /\ fetches[f].outcome = "httpError"
        /\ fetches[g].outcome = "fetchRejected"
        /\ fetches[g].metric.error = Str(<<"The operation was aborted due to timeout">>)

\* C9: the log has one entry per attempt that is over, the metric of every
\* such attempt is in the log exactly once, and the attempts counted are
\* the ones begun at startup or by a tick.
C9_OneMetricPerAttempt ==
    /\ Len(metricsLog) = Cardinality(DoneFetches)
    /\ \A f \in DoneFetches :
            Cardinality({i \in DOMAIN metricsLog : metricsLog[i] = fetches[f].metric}) = 1
    /\ attempts = Cardinality({f \in FetchIds : fetches[f].pc # "none"})

\* The startup attempt stored items, the attempt of a tick received 304,
\* and the log has their two metrics.
C9_Witness ==
    /\ Len(metricsLog) = 2
    /\ \E f, g \in DoneFetches :
            fetches[f].outcome = "stored" /\ fetches[g].outcome = "notModified"

----
\* Properties of the metrics log (SpecMetrics), where `now` is the number of
\* attempts logged so far.

\* C10: the log never has more than 500 entries; once more than 500
\* attempts were logged it has exactly 500, and its entries are always the
\* most recently appended metrics, in append order.
C10_MetricsBound ==
    /\ Len(metricsLog) <= 500
    /\ now > 500 => Len(metricsLog) = 500
    /\ now <= 500 => Len(metricsLog) = now
    /\ \A i \in DOMAIN metricsLog :
            metricsLog[i] = MetricAt(now - Len(metricsLog) + i - 1)

\* More than 500 attempts were logged and the oldest of them are gone.
C10_Witness ==
    /\ now > 500
    /\ Len(metricsLog) = 500
    /\ metricsLog[1].timestamp = now - 500

----
\* Properties of the translation queue.

\* The cycles that wait for a provider call or for the delay between batches.
InProgress == {c \in CycleIds : cycles[c].pc \in {"translate", "sleep"}}

\* C11: at most one cycle is in progress, isProcessing says whether one is,
\* and a timer (the initial run, a wake) that fires while a cycle is in
\* progress starts no cycle and changes nothing but the timer itself.
C11_SingleFlight ==
    [][/\ Cardinality(InProgress) <= 1
       /\ Cardinality(InProgress') <= 1
       /\ isProcessing' = (InProgress' # {})
       /\ (isProcessing /\ (wakeTimers' < wakeTimers \/ initialTimers' < initialTimers))
            => UNCHANGED <<storeVars, metricsLog, schedulerVars, now, queueVars,
                           processInterval, liveIntervals>>]_vars

\* A cycle is at its first provider call, an article was ingested after
\* its scan, and the wake set by that ingestion and the initial run have fired.
C11_Witness ==
    /\ \E c \in InProgress :
            /\ cycles[c].pc = "translate"
            /\ Len(cycles[c].trace) = 1
            /\ \E i \in DOMAIN articles :
                    /\ articles[i].sourceLocale # "ar"
                    /\ "ar" \notin DOMAIN articles[i].translations
                    /\ \A k \in DOMAIN cycles[c].needs : cycles[c].needs[k] # articles[i].id
    /\ wakeTimers = 0
    /\ initialTimers = 0
    /\ liveIntervals > 0

\* The cycles that passed the entry guard and reached a provider call.
Started == {c \in CycleIds : cycles[c].pc # "none"}

\* The events of a kind in the trace of a cycle.
EventsOf(c, kinds) ==
    {k \in DOMAIN cycles[c].trace : cycles[c].trace[k].ev \in kinds}

\* The elements of a sequence.
Range(seq) == {seq[k] : k \in DOMAIN seq}

\* C13: no article was ever scanned for, sent to the provider with, or is
\* being sent with, a target locale equal to its sourceLocale, and no
\* article has a translation entry under its own sourceLocale.
C13_NoSelfTranslation ==
    /\ \A c \in Started : \A k \in DOMAIN cycles[c].trace :
            \A id \in Range(cycles[c].trace[k].ids) :
                getArticle(articles, id).sourceLocale # cycles[c].trace[k].locale
    /\ \A c \in InProgress : \A id \in Range(batchOf(cycles[c])) :
            getArticle(articles, id).sourceLocale # ENABLED_LOCALES[cycles[c].locale]
    /\ \A i \in DOMAIN articles :
            articles[i].sourceLocale \notin DOMAIN articles[i].translations

\* One cycle translated articles of the Arabic feed into English and
\* articles of the English feed into Arabic.
C13_Witness ==
    \E c \in Started :
        /\ \E k \in EventsOf(c, {"resolved"}) : cycles[c].trace[k].locale = "en"
        /\ \E k \in EventsOf(c, {"resolved"}) : cycles[c].trace[k].locale = "ar"
        /\ \E i, j \in DOMAIN articles :
                /\ articles[i].sourceLocale = "ar" /\ "en" \in DOMAIN articles[i].translations
                /\ articles[j].sourceLocale = "en" /\ "ar" \in DOMAIN articles[j].translations

\* The step ends the provider call of cycle c; NewEvent says how.
CallEnds(c) ==
    /\ cycles[c].pc = "translate"
    /\ Len(cycles'[c].trace) > Len(cycles[c].trace)

NewEvent(c) == cycles'[c].trace[Len(cycles[c].trace) + 1]

\* The translation entry of the article with this id, in store arts.
HasEntry(arts, id, locale) == locale \in DOMAIN getArticle(arts, id).translations

\* C14: the step in which the provider call of a batch fails changes no
\* article, and while the cycle goes on no article of the failed batch has
\* an entry for the locale; the step in which the call succeeds gives
\* every article of the batch an entry for the locale, written in that
\* step, and changes no other article.
C14_BatchAtomicity ==
    [][\A c \in CycleIds :
        /\ (CallEnds(c) /\ NewEvent(c).ev = "rejected") => articles' = articles
        /\ (CallEnds(c) /\ NewEvent(c).ev = "resolved") =>
                \A i \in DOMAIN articles' :
                    IF articles'[i].id \in Range(NewEvent(c).ids)
                        THEN /\ NewEvent(c).locale \in DOMAIN articles'[i].translations
                             /\ articles'[i].translations[NewEvent(c).locale].translatedAt = now
                        ELSE articles'[i] = articles[i]
        /\ c \in InProgress' =>
                \A k \in EventsOf(c, {"rejected"})' :
                    \A id \in Range(cycles'[c].trace[k].ids) :
                        ~HasEntry(articles', id, cycles'[c].trace[k].locale)]_vars

\* In one cycle a full batch failed and stayed without entries while the
\* next batch of the locale succeeded.
C14_Witness ==
    \E c \in Started :
        \E k \in EventsOf(c, {"rejected"}), m \in EventsOf(c, {"resolved"}) :
            /\ k < m
            /\ cycles[c].trace[k].locale = cycles[c].trace[m].locale
            /\ Len(cycles[c].trace[k].ids) = 20
            /\ \A id \in Range(cycles[c].trace[k].ids) :
                    ~HasEntry(articles, id, cycles[c].trace[k].locale)
            /\ \A id \in Range(cycles[c].trace[m].ids) :
                    HasEntry(articles, id, cycles[c].trace[m].locale)

\* The last event of the stretch of the trace of c that the scan at k opens.
StretchEnd(c, k) ==
    IF \E m \in EventsOf(c, {"scan"}) : m > k
        THEN (CHOOSE m \in EventsOf(c, {"scan"}) :
                m > k /\ \A q \in EventsOf(c, {"scan"}) : q > k => m <= q) - 1
        ELSE Len(cycles[c].trace)

\* The stretch is over: the cycle went on to another locale or ended.
StretchOver(c, k) == cycles[c].pc = "done" \/ StretchEnd(c, k) < Len(cycles[c].trace)

\* C15: after the scan of a locale with n articles, the events of the cycle
\* are call, delay, call, ..., call; the j-th call covers the articles
\* 20(j-1)+1 .. min(20j, n) of the scan, and when the locale is over there
\* were ceil(n/20) calls, with no delay after the last.
C15_Batching ==
    \A c \in Started : \A k \in EventsOf(c, {"scan"}) :
        LET trace == cycles[c].trace
            needs == trace[k].ids
            n == Len(needs)
            m == StretchEnd(c, k) - k
        IN  /\ n > 0
            /\ \A j \in 1..m :
                    IF j % 2 = 1
                        THEN /\ trace[k + j].ev \in {"resolved", "rejected"}
                             /\ trace[k + j].locale = trace[k].locale
                             /\ trace[k + j].ids =
                                    SubSeq(needs, 20 * ((j - 1) \div 2) + 1,
                                           IF 20 * ((j + 1) \div 2) < n
                                                THEN 20 * ((j + 1) \div 2) ELSE n)
                        ELSE trace[k + j].ev = "sleep"
            /\ m <= 2 * ((n + 19) \div 20) - 1
            /\ StretchOver(c, k) => m = 2 * ((n + 19) \div 20) - 1
            /\ \A a, b \in 1..n : needs[a] = needs[b] => a = b

\* 25 articles needed a locale: the cycle made a call with 20 of them, a
\* delay, a call with 5, and went on without a delay.
C15_Witness ==
    \E c \in Started : \E k \in EventsOf(c, {"scan"}) :
        /\ Len(cycles[c].trace[k].ids) = 25
        /\ StretchOver(c, k)
        /\ StretchEnd(c, k) = k + 3
        /\ Len(cycles[c].trace[k + 1].ids) = 20
        /\ cycles[c].trace[k + 2].ev = "sleep"
        /\ Len(cycles[c].trace[k + 3].ids) = 5

\* The text stored for a key: the translation when the response carries
\* the key, the article's own text otherwise.
TextFor(key, keys, original, locale) ==
    IF key \in keys THEN Translated(original, locale) ELSE original

\* C16: the step in which a provider call succeeds gives every article of
\* the batch an entry whose title and description are the translations the
\* response carries and the article's own text where it carries none.
C16_PartialResponseFallback ==
    [][\A c \in CycleIds :
        (CallEnds(c) /\ NewEvent(c).ev = "resolved") =>
            LET e == NewEvent(c)
            IN  \A p \in DOMAIN e.ids :
                    LET article == getArticle(articles', e.ids[p])
                        keys == IF p = 1 THEN e.keys.first ELSE e.keys.rest
                    IN  /\ e.locale \in DOMAIN article.translations
                        /\ article.translations[e.locale].title =
                                TextFor("title", keys, article.title, e.locale)
                        /\ article.translations[e.locale].description =
                                TextFor("desc", keys, article.description, e.locale)]_vars

\* A response lacked the title of the first article and the description
\* of the others: the entries carry the original text in their place.
C16_Witness ==
    \E c \in Started : \E k \in EventsOf(c, {"resolved"}) :
        LET e == cycles[c].trace[k]
        IN  /\ e.keys = Keys({"desc"}, {"title"})
            /\ Len(e.ids) > 1
            /\ getArticle(articles, e.ids[1]).translations[e.locale].title
                    = getArticle(articles, e.ids[1]).title
            /\ getArticle(articles, e.ids[2]).translations[e.locale].description
                    = getArticle(articles, e.ids[2]).description
            /\ getArticle(articles, e.ids[2]).translations[e.locale].title
                    # getArticle(articles, e.ids[2]).title

\* The ids of the stored articles that lack an entry for the locale and
\* come from a feed in another language.
Needing(arts, locale) ==
    {arts[i].id : i \in {j \in DOMAIN arts :
        arts[j].sourceLocale # locale /\ locale \notin DOMAIN arts[j].translations}}

\* The enabled locales after the one cycle c is at that some article needs.
LaterLocales(c, arts) ==
    {l \in DOMAIN ENABLED_LOCALES :
        l > cycles[c].locale /\ Needing(arts, ENABLED_LOCALES[l]) # {}}

\* C17: the step in which a batch fails leaves its articles without entry
\* and the cycle alive: it waits for the delay when the locale has another
\* batch, else goes on to the next locale some article needs, and ends only
\* when there is none; after a delay the next batch is sent; and a cycle
\* that starts scans every article that still needs the locale.
C17_FailedBatchDoesNotAbort ==
    [][\A c \in CycleIds :
        /\ (CallEnds(c) /\ NewEvent(c).ev = "rejected") =>
                /\ articles' = articles
                /\ \A id \in Range(NewEvent(c).ids) :
                        id \in Needing(articles', NewEvent(c).locale)
                /\ IF cycles[c].i + 20 < Len(cycles[c].needs)
                        THEN /\ cycles'[c].pc = "sleep"
                             /\ cycles'[c].locale = cycles[c].locale
                             /\ cycles'[c].needs = cycles[c].needs
                             /\ cycles'[c].i = cycles[c].i
                    ELSE IF LaterLocales(c, articles) # {}
                        THEN /\ cycles'[c].pc = "translate"
                             /\ cycles'[c].locale \in LaterLocales(c, articles)
                             /\ \A l \in LaterLocales(c, articles) : cycles'[c].locale <= l
                        ELSE cycles'[c].pc = "done" /\ isProcessing' = FALSE
        /\ (cycles[c].pc = "sleep" /\ cycles'[c] # cycles[c]) =>
                /\ cycles'[c].pc = "translate"
                /\ cycles'[c].needs = cycles[c].needs
                /\ cycles'[c].i = cycles[c].i + 20
                /\ cycles'[c].i < Len(cycles'[c].needs)
        /\ (cycles[c].pc = "none" /\ cycles'[c].pc # "none") =>
                Range(cycles'[c].trace[1].ids) = Needing(articles, cycles'[c].trace[1].locale)]_vars

\* The first batch of a cycle failed; the cycle still sent the next batch
\* of the locale and went on to the other locale, and the next cycle
\* translated the articles of the failed batch.
C17_Witness ==
    \E c, d \in Started : \E k \in EventsOf(c, {"rejected"}) :
        /\ c < d
        /\ \E m \in EventsOf(c, {"resolved", "rejected"}) :
                m > k /\ cycles[c].trace[m].locale = cycles[c].trace[k].locale
        /\ \E m \in EventsOf(c, {"resolved", "rejected"}) :
                m > k /\ cycles[c].trace[m].locale # cycles[c].trace[k].locale
        /\ \E q \in EventsOf(d, {"resolved"}) :
                /\ cycles[d].trace[q].locale = cycles[c].trace[k].locale
                /\ Range(cycles[c].trace[k].ids) \subseteq Range(cycles[d].trace[q].ids)

\* The length of the trace of cycle c before the step.
OldLen(c) == IF cycles[c].pc = "none" THEN 0 ELSE Len(cycles[c].trace)

\* The provider calls that succeeded, as <<cycle, position in its trace>>.
ResolvedCalls ==
    UNION {{<<c, k>> : k \in EventsOf(c, {"resolved"})} : c \in Started}

\* C18: when a cycle scans a locale (as it starts or as it goes on to the
\* locale), no article of the scan has an entry for the locale; and no two
\* successful provider calls for a locale, in one cycle or in two, cover
\* the same article.
C18_NoDuplicateWork ==
    [][/\ \A c \in CycleIds :
            c \in Started' =>
                \A k \in (OldLen(c) + 1)..Len(cycles'[c].trace) :
                    cycles'[c].trace[k].ev = "scan" =>
                        \A id \in Range(cycles'[c].trace[k].ids) :
                            ~HasEntry(articles', id, cycles'[c].trace[k].locale)
       /\ \A x, y \in ResolvedCalls' :
            (x # y /\ cycles'[x[1]].trace[x[2]].locale = cycles'[y[1]].trace[y[2]].locale)
                => Range(cycles'[x[1]].trace[x[2]].ids)
                    \cap Range(cycles'[y[1]].trace[y[2]].ids) = {}]_vars

\* A cycle translated the article with guid a into Arabic; a later cycle
\* scanned Arabic for another article and left that one out.
C18_Witness ==
    \E c, d \in Started :
        /\ c < d
        /\ \E k \in EventsOf(c, {"resolved"}) :
                cycles[c].trace[k].locale = "ar" /\ <<"a">> \in Range(cycles[c].trace[k].ids)
        /\ \E q \in EventsOf(d, {"scan"}) :
                /\ cycles[d].trace[q].locale = "ar"
                /\ <<"a">> \notin Range(cycles[d].trace[q].ids)

----
\* Properties of the translations in the store (SpecTranslations).

\* C19: a storeTranslation call with an id that is not in the store leaves
\* the articles as they are; with a stored id it gives that article an
\* entry for the locale with the title and description of the call, keeps
\* its entries for the other locales and its other fields, and leaves
\* every other article as it is.
C19_StoreTranslationFrame ==
    [][lastCall'.op = "storeTranslation" =>
        IF StoredAt(lastCall'.articleId) = {}
            THEN articles' = articles
            ELSE /\ DOMAIN articles' = DOMAIN articles
                 /\ \A i \in DOMAIN articles :
                        IF articles[i].id = lastCall'.articleId
                            THEN /\ Core(articles'[i]) = Core(articles[i])
                                 /\ DOMAIN articles'[i].translations =
                                        DOMAIN articles[i].translations \cup {lastCall'.locale}
                                 /\ articles'[i].translations[lastCall'.locale].title
                                        = lastCall'.title
                                 /\ articles'[i].translations[lastCall'.locale].description
                                        = lastCall'.description
                                 /\ \A l \in DOMAIN articles[i].translations \ {lastCall'.locale} :
                                        articles'[i].translations[l] = articles[i].translations[l]
                            ELSE articles'[i] = articles[i]]_vars

\* storeTranslation was called for the stored article a, which has entries
\* for two locales with different titles, while another article is stored.
C19_Witness ==
    /\ lastCall.op = "storeTranslation"
    /\ lastCall.articleId = <<"a">>
    /\ Len(articles) = 2
    /\ \E i \in StoredAt(<<"a">>) :
            /\ DOMAIN articles[i].translations = {"ar", "fr"}
            /\ articles[i].translations["ar"].title # articles[i].translations["fr"].title

\* C20: what getUntranslatedArticles returns for a locale holds every stored
\* article without an entry for the locale, and nothing else.
C20_UntranslatedExactly ==
    lastCall.op = "getUntranslatedArticles" =>
        /\ \A i \in DOMAIN articles :
                lastCall.locale \notin DOMAIN articles[i].translations
                    => \E k \in DOMAIN lastCall.returned : lastCall.returned[k] = articles[i]
        /\ \A k \in DOMAIN lastCall.returned :
                \E i \in DOMAIN articles :
                    /\ lastCall.returned[k] = articles[i]
                    /\ lastCall.locale \notin DOMAIN articles[i].translations

\* Two articles are stored, one with an entry for the locale asked for and
\* one with an entry for another locale only, which is the one returned.
C20_Witness ==
    /\ lastCall.op = "getUntranslatedArticles"
    /\ Len(lastCall.returned) = 1
    /\ DOMAIN lastCall.returned[1].translations # {}
    /\ \E i \in DOMAIN articles : lastCall.locale \in DOMAIN articles[i].translations

----
\* Properties of the queue over time (SpecConverge).

\* C12: once the queue is initialised and an article is stored whose
\* sourceLocale is not the enabled locale l, the article eventually has a
\* translation entry for l.
C12_TranslationConvergence ==
    \A id \in {<<"a">>, Sha256(<<"x">>)} :
        \A l \in {ENABLED_LOCALES[k] : k \in DOMAIN ENABLED_LOCALES} :
            (/\ lingoDotDev
             /\ hasArticle(articles, id)
             /\ getArticle(articles, id).sourceLocale # l)
                ~> (hasArticle(articles, id) /\ HasEntry(articles, id, l))

\* A provider call failed, and both articles have their Arabic entry.
C12_Witness ==
    /\ Rejections # {}
    /\ \A id \in {<<"a">>, Sha256(<<"x">>)} :
            hasArticle(articles, id) /\ HasEntry(articles, id, "ar")

----
\* Properties of the server with and without the credential (SpecEither).

\* The articles without their translations.
Cores(arts) == [i \in DOMAIN arts |-> Core(arts[i])]

\* C21: as long as the engine was never created, isProcessing is false, no
\* processQueue call got past its guard (so no provider call was made), no
\* article has a translation entry, and a translateOnDemand call is
\* rejected with an error at once. With or without the engine, a step of
\* the fetch pipeline leaves the queue alone, a step of the queue leaves
\* the pipeline, the cache, the metrics log and the articles but for their
\* translations alone, and an attempt that processes its payload inserts
\* the ids the store lacks, counts them and appends its metric.
C21_DisabledWithoutCredential ==
    [][/\ ~lingoDotDev' =>
            /\ isProcessing' = FALSE
            /\ \A c \in CycleIds : cycles'[c] = NoCycle
            /\ \A i \in DOMAIN articles' : DOMAIN articles'[i].translations = {}
            /\ lastCall'.op = "translateOnDemand" =>
                    /\ lastCall'.outcome = "rejected"
                    /\ lastCall'.error = Str(<<"Translation engine not initialized">>)
       /\ <<fetches, metricsLog, feedCache>>' # <<fetches, metricsLog, feedCache>>
            => UNCHANGED <<lingoDotDev, isProcessing, cycles, cyclesStarted, timerVars>>
       /\ <<isProcessing, cycles>>' # <<isProcessing, cycles>>
            => /\ UNCHANGED <<fetches, metricsLog, feedCache, cronTasks, attempts>>
               /\ Cores(articles') = Cores(articles)
       /\ \A f \in FetchIds, r \in EitherPayloads :
            Completes(f, r) =>
                /\ StoredIds(articles') = StoredIds(articles) \cup PayloadIds(r)
                /\ fetches'[f].metric.articlesAdded =
                        Cardinality(PayloadIds(r) \ StoredIds(articles))
                /\ fetches'[f].metric.error = Undef
                /\ metricsLog' = Append(metricsLog, fetches'[f].metric)]_vars

\* Without the engine: an attempt inserted an article and woke the queue,
\* the wake timer and a later tick's attempt are over, and an on-demand
\* call was just rejected.
C21_Witness ==
    /\ ~lingoDotDev
    /\ articles # <<>>
    /\ wakeTimers = 0
    /\ \A f \in FetchIds : fetches[f].pc = "done"
    /\ \E f \in DoneFetches : fetches[f].metric.articlesAdded > 0
    /\ lastCall.op = "translateOnDemand"

----
\* Properties of stopping the scheduler (SpecStop).

\* The step is a stopScheduler call (one that stops nothing right after
\* another one that stopped nothing changes no variable at all).
StopStep == lastCall' # lastCall /\ lastCall'.op = "stopScheduler"

\* C22: a stopScheduler call stops every task that was registered and
\* leaves cronTasks empty, and touches nothing else, the fetches in flight
\* included; a call made when no task is registered, before the scheduler
\* was started or after an earlier call, stops nothing and changes
\* nothing; and once the tasks of a started scheduler are cancelled, no
\* new fetch attempt begins.
C22_StopScheduler ==
    [][/\ StopStep =>
            /\ cronTasks' = <<>>
            /\ lastCall'.stopped = Len(cronTasks)
            /\ UNCHANGED <<feeds, storeVars, metricsLog, fetches, attempts, now, timerVars,
                           wakeTimers, queueVars, upserted>>
       /\ (StopStep /\ cronTasks = <<>>) =>
            /\ lastCall'.stopped = 0
            /\ cronTasks' = cronTasks
       /\ (attempts > 0 /\ cronTasks = <<>>) => attempts' = attempts]_vars

\* The scheduler was started, then stopped while a fetch was in flight,
\* then stopped again; the fetch is over.
C22_Witness ==
    /\ lastCall.op = "stopScheduler"
    /\ lastCall.stopped = 0
    /\ attempts > 0
    /\ cronTasks = <<>>
    /\ \A f \in FetchIds : fetches[f].pc \in {"none", "done"}
    /\ metricsLog # <<>>

----
\* Properties of the scheduler with several feeds (SpecIsolation).

Failures == {"httpError", "fetchRejected", "bodyRejected", "itemRaised"}

\* The attempts that are waiting for the response or for the parser.
InFlight == {f \in FetchIds : fetches[f].pc \in {"fetch", "parse"}}

\* C23: the step in which an attempt fails (error status, timeout,
\* unparsable body, an item that raises) leaves every task registered and
\* every other attempt as it was; whatever happened to other attempts, an
\* attempt in flight can receive its response and can process its payload;
\* and the step in which an attempt ends appends the metric of that
\* attempt, which names its own feed, and changes no other attempt.
C23_FeedIsolation ==
    [][\A f \in FetchIds :
        /\ (f \in InFlight /\ fetches'[f].pc = "done" /\ fetches'[f].outcome \in Failures)
            => /\ cronTasks' = cronTasks
               /\ \A g \in FetchIds \ {f} : fetches'[g] = fetches[g]
        /\ fetches[f].pc = "fetch" => ENABLED RespondOk(f, Null, Null)
        /\ fetches[f].pc = "parse" => ENABLED ParseResolves(f, Rss("single", <<ItemA>>))
        /\ (f \in InFlight /\ fetches'[f].pc = "done")
            => /\ metricsLog' = Append(metricsLog, fetches'[f].metric)
               /\ fetches'[f].metric.feedUrl = feeds[fetches[f].feed].url
               /\ \A g \in FetchIds \ {f} : fetches'[g] = fetches[g]]_vars

\* In the startup pass over two feeds the fetch of one feed timed out, the
\* fetch of the other feed then stored its items, and both tasks are
\* registered.
C23_Witness ==
    /\ Len(cronTasks) = 2
    /\ Len(metricsLog) = 2
    /\ \E f, g \in DoneFetches :
            /\ fetches[f].feed # fetches[g].feed
            /\ fetches[f].outcome = "fetchRejected"
            /\ fetches[g].outcome = "stored"
            /\ metricsLog[1] = fetches[f].metric
            /\ metricsLog[2] = fetches[g].metric
            /\ metricsLog[2].articlesAdded = 1

----
\* Properties of the pipeline while the queue is at work (SpecDecoupled).

\* C24: whenever attempts are in flight, a moment comes at which they are
\* all over, although the cycle that is under way waits for a provider
\* call that never returns; the step in which
\* an attempt processes its payload, with isProcessing set or not, inserts
\* the ids the store lacks, appends its metric, ends the attempt, and does
\* no more to the queue than leave one more wake timer pending when it
\* inserted something.
C24_IngestionDecoupled ==
    /\ (InFlight # {}) ~> (InFlight = {})
    /\ [][\A f \in FetchIds, r \in DecoupledPayloads :
            Completes(f, r) =>
                /\ StoredIds(articles') = StoredIds(articles) \cup PayloadIds(r)
                /\ metricsLog' = Append(metricsLog, fetches'[f].metric)
                /\ fetches'[f].metric.error = Undef
                /\ fetches'[f].pc = "done"
                /\ wakeTimers' = wakeTimers
                        + (IF fetches'[f].metric.articlesAdded > 0 THEN 1 ELSE 0)
                /\ UNCHANGED <<isProcessing, cycles, cyclesStarted>>]_vars

\* A cycle is waiting for the provider; since it began, an attempt has
\* inserted an article the cycle did not scan and logged its metric, every
\* attempt is over, and the wake timer has fired.
C24_Witness ==
    /\ isProcessing
    /\ wakeTimers = 0
    /\ \A f \in FetchIds : fetches[f].pc = "done"
    /\ Len(metricsLog) = MaxAttempts
    /\ \E c \in Started :
            /\ cycles[c].pc = "translate"
            /\ Len(cycles[c].trace) = 1
            /\ \E i \in DOMAIN articles :
                    /\ articles[i].id \notin Range(cycles[c].trace[1].ids)
                    /\ DOMAIN articles[i].translations = {}

----
\* Properties of the summary (SpecMetrics), where `now` is the number of
\* attempts made so far and MetricAt(n) the metric of the n-th of them,
\* which added one article or none.

\* The totals over the attempts lo .. now - 1.
TotalsSince(lo) ==
    [totalFetches |-> now - lo,
     totalArticlesAdded |-> Cardinality({n \in lo..(now - 1) : MetricAt(n).articlesAdded = 1}),
     totalFailures |-> Cardinality({n \in lo..(now - 1) : MetricAt(n).error # Undef}),
     total304Skips |-> Cardinality({n \in lo..(now - 1) : MetricAt(n).skipped304})]

\* C25 as stated: the summary holds the totals over all the attempts made
\* so far.
C25_SummaryOverAllAttempts == getMetrics(metricsLog) = TotalsSince(0)

\* C25, amended: the summary holds the totals over the attempts the log
\* retains, which are the 500 most recent ones once more than 500 were
\* made, and all of them before.
C25_SummaryOverRetainedAttempts ==
    getMetrics(metricsLog) =
        TotalsSince(IF now > MAX_METRICS_HISTORY THEN now - MAX_METRICS_HISTORY ELSE 0)

\* More than 500 attempts were made, the last of them a failure, and the
\* summary counts 500.
C25_Witness ==
    /\ now > MAX_METRICS_HISTORY + 1
    /\ getMetrics(metricsLog).totalFetches = MAX_METRICS_HISTORY
    /\ getMetrics(metricsLog).totalFailures > 0
    /\ getMetrics(metricsLog).totalArticlesAdded > 0
    /\ getMetrics(metricsLog).total304Skips > 0

----
\* Properties of the conditional cache (SpecCache).

\* The validators of a response with these headers: a header that is
\* missing or empty is no validator.
Validators(etagHeader, lastModifiedHeader) ==
    [etag |-> IF etagHeader.t = "string" /\ etagHeader.v # <<>> THEN etagHeader ELSE Undef,
     lastModified |-> IF lastModifiedHeader.t = "string" /\ lastModifiedHeader.v # <<>>
                         THEN lastModifiedHeader ELSE Undef]

NoValidators == [etag |-> Undef, lastModified |-> Undef]

\* The url of the feed attempt f fetches.
UrlOf(f) == feeds[fetches[f].feed].url

\* C26: the step in which an attempt receives a 2xx response with at least
\* one validator leaves as the entry of the feed exactly the validators of
\* that response, whatever the entry was before, and the entries of other
\* urls as they were; a 2xx response without validator leaves the cache as
\* it was.
C26_CacheHoldsLastValidators ==
    [][\A f \in FetchIds, e \in EtagHeaders, m \in LastModifiedHeaders :
        RespondOk(f, e, m) =>
            IF Validators(e, m) # NoValidators
                THEN /\ DOMAIN feedCache' = DOMAIN feedCache \cup {UrlOf(f)}
                     /\ feedCache'[UrlOf(f)] = Validators(e, m)
                     /\ \A u \in DOMAIN feedCache \ {UrlOf(f)} : feedCache'[u] = feedCache[u]
                ELSE feedCache' = feedCache]_vars

\* Both attempts have received a 200, and the entry of the feed has the
\* entity tag f and no lastModified.
C26_Witness ==
    /\ DOMAIN feedCache # {}
    /\ \A u \in DOMAIN feedCache :
            feedCache[u] = [etag |-> Str(<<"f">>), lastModified |-> Undef]
    /\ \A f \in FetchIds : fetches[f].pc \in {"parse", "done"}

\* C27 as stated: the step in which an attempt receives a response other
\* than 304 that carries a validator, be its status 2xx or an error status,
\* leaves an entry of the feed with the validators of the response; and no
\* step takes an entry out of the cache.
C27_AnyNon304ResponseCached ==
    [][/\ \A f \in FetchIds, e \in EtagHeaders, m \in LastModifiedHeaders :
            ((RespondOk(f, e, m) \/ RespondErrorWith(f, e, m))
                    /\ Validators(e, m) # NoValidators)
                => /\ UrlOf(f) \in DOMAIN feedCache'
                   /\ feedCache'[UrlOf(f)] = Validators(e, m)
       /\ DOMAIN feedCache \subseteq DOMAIN feedCache']_vars

\* C27, amended: the step in which an attempt receives a 2xx response that
\* carries a validator leaves an entry of the feed with the validators of
\* the response; the step in which it receives an error status or 304
\* leaves the cache as it was, whatever headers came with it; and no step
\* takes an entry out of the cache.
C27_SuccessfulResponseCached ==
    [][/\ \A f \in FetchIds, e \in EtagHeaders, m \in LastModifiedHeaders :
            /\ (RespondOk(f, e, m) /\ Validators(e, m) # NoValidators)
                    => /\ UrlOf(f) \in DOMAIN feedCache'
                       /\ feedCache'[UrlOf(f)] = Validators(e, m)
            /\ RespondErrorWith(f, e, m) => feedCache' = feedCache
       /\ \A f \in FetchIds : Respond304(f) => feedCache' = feedCache
       /\ DOMAIN feedCache \subseteq DOMAIN feedCache']_vars

\* The first response created the entry; the attempt of the tick, which
\* asked with the validators of that entry, met an error status, and the
\* entry is still there.
C27_Witness ==
    /\ DOMAIN feedCache # {}
    /\ \E f, g \in DoneFetches :
            /\ fetches[f].outcome = "stored"
            /\ fetches[g].outcome = "httpError"
            /\ metricsLog = <<fetches[f].metric, fetches[g].metric>>
            /\ fetches[g].metric.timestamp - fetches[g].metric.durationMs
                    >= fetches[f].metric.timestamp

----
\* Properties of the parsing step (SpecShapes).

\* The step ends attempt f after its 200 with a metric without items.
EndsEmpty(f) ==
    /\ fetches[f].pc = "parse"
    /\ fetches'[f].pc = "done"
    /\ fetches'[f].promise = "fulfilled"
    /\ fetches'[f].metric.totalArticlesInFeed = 0
    /\ fetches'[f].metric.articlesAdded = 0
    /\ fetches'[f].metric.skipped304 = FALSE
    /\ metricsLog' = Append(metricsLog, fetches'[f].metric)
    /\ articles' = articles
    /\ wakeTimers' = wakeTimers

\* C28 as stated: whenever the body of a 200 is no RSS 2.0 and no Atom
\* feed, be it a document of another shape or no XML at all, the attempt
\* ends with a metric of no items and no error and leaves the articles as
\* they were.
C28_AnyOtherBodyIsEmptyFeed ==
    [][\A f \in FetchIds :
        (ParseRejects(f, "Non-whitespace before first tag.")
            \/ \E r \in ShapePayloads : r.shape = "other" /\ ParseResolves(f, r))
        => /\ EndsEmpty(f)
           /\ fetches'[f].metric.error = Undef]_vars

\* C28, amended: when the body of a 200 is an XML document that is no
\* RSS 2.0 and no Atom feed, the attempt ends with a metric of no items
\* and no error and leaves the articles as they were; when the body is no
\* XML document, the attempt ends with a metric of no items that carries
\* the error text, and leaves the articles as they were; in both cases the
\* promise of the attempt is fulfilled.
C28_OtherDocumentIsEmptyFeed ==
    [][\A f \in FetchIds :
        /\ (\E r \in ShapePayloads : r.shape = "other" /\ ParseResolves(f, r))
            => /\ EndsEmpty(f)
               /\ fetches'[f].metric.error = Undef
        /\ ParseRejects(f, "Non-whitespace before first tag.")
            => /\ EndsEmpty(f)
               /\ fetches'[f].metric.error = Str(<<"Non-whitespace before first tag.">>)]_vars

\* The store holds an article; an attempt then met a document of another
\* shape and logged a metric of no items and no error.
C28_Witness ==
    /\ Len(articles) = 1
    /\ Len(metricsLog) = 2
    /\ metricsLog[1].articlesAdded = 1
    /\ metricsLog[2].totalArticlesInFeed = 0
    /\ metricsLog[2].error = Undef
    /\ \A k \in 1..2 : \E f \in FetchIds :
         /\ fetches[f].pc = "done"
         /\ fetches[f].promise = "fulfilled"
         /\ fetches[f].metric = metricsLog[k]

----
\* Properties of the wake signal (Spec, SpecWake).

\* The step ends attempt f.
Ends(f) == fetches[f].pc \notin {"none", "done"} /\ fetches'[f].pc = "done"

\* C29: a step that ends a fetch attempt schedules one more wake of the
\* translation queue when the attempt inserted at least one article, and
\* schedules none when it inserted no article.
C29_WakeIffInserted ==
    [][\A f \in FetchIds : Ends(f) =>
        IF Len(articles') > Len(articles)
            THEN wakeTimers' = triggerQueueProcessing(wakeTimers)
            ELSE wakeTimers' = wakeTimers]_vars

\* An attempt inserted an article, then an item of the same payload raised:
\* the article is stored and no wake was ever scheduled.
C29_Witness ==
    /\ Len(articles) = 1
    /\ Len(metricsLog) = 1
    /\ wakeTimers = 0
    /\ \E f \in FetchIds :
         /\ fetches[f].pc = "done"
         /\ fetches[f].outcome = "itemRaised"
         /\ fetches[f].metric.articlesAdded = 0


----
\* Properties of a processing cycle (SpecCycle).

\* The cycles that wait for a provider call or for a sleep.
Running == {c \in CycleIds : cycles[c].pc \in {"translate", "sleep"}}

\* C31: the queue is Processing exactly while a cycle is running, and
\* whenever it is Processing it is Idle again later, whether the batches
\* of the cycle succeed or fail.
C31_CycleReturnsToIdle ==
    /\ [](isProcessing <=> Running # {})
    /\ isProcessing ~> ~isProcessing

\* A cycle of two batches whose first batch failed has ended, and the
\* queue is Idle.
C31_Witness ==
    /\ ~isProcessing
    /\ \E c \in CycleIds :
         /\ cycles[c].pc = "done"
         /\ \E k \in DOMAIN cycles[c].trace : cycles[c].trace[k].ev = "rejected"
         /\ \E k \in DOMAIN cycles[c].trace : cycles[c].trace[k].ev = "sleep"

----
\* Properties of the scheduler (SpecIsolation, SpecRestart).

\* The fetch attempts begun for feed i.
AttemptsOf(fs, i) == {f \in FetchIds : fs[f].pc # "none" /\ fs[f].feed = i}

\* C32: the step of startScheduler leaves exactly one periodic task per
\* feed and one fetch under way for every feed; and a periodic tick only
\* ever begins a fetch when every feed has had its startup fetch begun.
C32_StartupPassBeforeTicks ==
    [][/\ startScheduler =>
            /\ Len(cronTasks') = Len(feeds)
            /\ \A i \in FeedIndex :
                 /\ Cardinality({k \in DOMAIN cronTasks' : cronTasks'[k] = i}) = 1
                 /\ Cardinality(AttemptsOf(fetches', i)) = 1
                 /\ \A f \in AttemptsOf(fetches', i) : fetches'[f].pc = "fetch"
       /\ (\E k \in 1..Len(cronTasks) : CronTick(k)) =>
            \A i \in FeedIndex : \E f \in 1..Len(feeds) : f \in AttemptsOf(fetches, i)]_vars

\* Every feed had its startup fetch, and a periodic tick then began one
\* more fetch.
C32_Witness ==
    /\ Len(cronTasks) = Len(feeds)
    /\ attempts = Len(feeds) + 1
    /\ \E i \in FeedIndex : Cardinality(AttemptsOf(fetches, i)) = 2

----
\* Monotony of the store (SpecTranslations).

\* The locales article id has an entry for.
LocalesOf(arts, id) == DOMAIN getArticle(arts, id).translations

\* C33: no step removes an article id from the store, so the number of
\* articles never goes down, and no step removes a locale from the
\* translation entries of an article.
C33_StoreMonotone ==
    [][/\ StoredIds(articles) \subseteq StoredIds(articles')
       /\ Len(articles) <= Len(articles')
       /\ \A id \in StoredIds(articles) :
            LocalesOf(articles, id) \subseteq LocalesOf(articles', id)]_vars

\* Two articles are stored, one of them with entries for two locales, and
\* the item of that article was ingested again afterwards.
C33_Witness ==
    /\ Len(articles) = 2
    /\ LocalesOf(articles, <<"a">>) = {"ar", "fr"}
    /\ lastCall.op = "upsertArticle"
    /\ lastCall.article.id = <<"a">>
    /\ ~lastCall.returned

----
\* Properties of overlapping fetch attempts (SpecOverlap).

\* When attempt f began, for an attempt that has ended.
StartOf(f) == fetches[f].metric.timestamp - fetches[f].metric.durationMs

\* Attempts f and g have ended and were under way at the same time.
Overlapped(f, g) ==
    /\ f # g
    /\ {f, g} \subseteq DoneFetches
    /\ fetches[f].feed = fetches[g].feed
    /\ StartOf(f) <= fetches[g].metric.timestamp
    /\ StartOf(g) <= fetches[f].metric.timestamp

\* C34: when the first two attempts of a feed were under way at the same
\* time and got the same document, every id is stored once, and the
\* articlesAdded of their two metrics add up to the number of ids stored.
C34_OverlapCountsOnce ==
    \A f, g \in FetchIds :
        Overlapped(f, g) /\ Len(metricsLog) = 2
            /\ fetches[f].outcome \in {"stored", "itemRaised"}
            /\ fetches[g].outcome \in {"stored", "itemRaised"}
        => /\ Len(articles) = Cardinality(StoredIds(articles))
           /\ fetches[f].metric.articlesAdded + fetches[g].metric.articlesAdded
                 = Cardinality(StoredIds(articles))

\* Two attempts overlapped on the Atom feed: its first entry is stored
\* once, and neither metric counts it.
C34_Witness ==
    /\ Len(articles) = 1
    /\ \E f, g \in FetchIds :
         /\ Overlapped(f, g)
         /\ fetches[f].outcome = "itemRaised"
         /\ fetches[g].outcome = "itemRaised"
         /\ fetches[f].metric.articlesAdded + fetches[g].metric.articlesAdded = 0

----
\* Accuracy of the metrics (Spec).

\* C35: the metric of every fetch attempt, also of one that ends with an
\* error, carries as articlesAdded the number of articles the attempt
\* inserted; so the articlesAdded of the log add up to the article count.
C35_MetricCountsInsertions ==
    [][/\ \A f \in FetchIds : Ends(f) =>
            fetches'[f].metric.articlesAdded =
                getArticleCount(articles') - getArticleCount(articles)
       /\ SumAdded(metricsLog') = getArticleCount(articles')]_vars

\* The log accounts for fewer articles than the store holds: an attempt
\* ended with an error after it had inserted one.
C35_Witness ==
    /\ SumAdded(metricsLog) < getArticleCount(articles)
    /\ \E f \in DoneFetches :
         /\ fetches[f].metric.error # Undef
         /\ fetches[f].metric.articlesAdded = 0
         /\ fetches[f].metric.totalArticlesInFeed = 0

----
\* The conditional cache after failed attempts (Spec).

\* C36: an attempt whose metric carries an error leaves the cache entry of
\* its feed as it found it; so as long as every attempt of a feed has
\* ended with an error, the feed has no cache entry, and its next request
\* carries no validator.
C36_FailedAttemptKeepsCache ==
    \A i \in FeedIndex :
        (\A f \in AttemptsOf(fetches, i) :
            fetches[f].pc = "done" /\ fetches[f].metric.error # Undef)
        => getFeedCache(feedCache, feeds[i].url) = Undef

\* The body of a 200 with an ETag could not be processed, and the next
\* request of the feed was answered not-modified: the store is empty and
\* stays so until the feed changes.
C36_Witness ==
    /\ articles = <<>>
    /\ \E f, g \in DoneFetches :
         /\ fetches[f].feed = fetches[g].feed
         /\ fetches[f].outcome = "bodyRejected"
         /\ fetches[g].outcome = "notModified"
         /\ fetches[f].metric.timestamp < fetches[g].metric.timestamp

----
\* The periodic tasks after calls of startScheduler and stopScheduler
\* (SpecRestart).

\* The periodic tasks of feed i.
TasksOf(i) == {k \in DOMAIN cronTasks : cronTasks[k] = i}

\* C37: whatever calls of startScheduler and stopScheduler were made,
\* there are no periodic tasks or as many as feeds, and no feed has more
\* than one.
C37_AtMostOneTaskPerFeed ==
    /\ Len(cronTasks) \in {0, Len(feeds)}
    /\ \A i \in FeedIndex : Cardinality(TasksOf(i)) <= 1

\* startScheduler was called twice with no stopScheduler in between: the
\* feed has two periodic tasks.
C37_Witness ==
    /\ Len(feeds) = 1
    /\ Cardinality(TasksOf(1)) = 2
    /\ attempts = 2
    /\ lastCall.op = "none"

----
\* The periodic timer of the queue after stopTranslationQueue (SpecRequeue).

\* C38: once stopTranslationQueue has returned, and until the queue is
\* initialised again, no periodic timer of the queue is live, so none
\* starts a processing cycle.
C38_StoppedQueueStartsNoCycle ==
    [][~processInterval =>
        /\ liveIntervals = 0
        /\ ~(IntervalFires /\ cyclesStarted' = cyclesStarted + 1)]_vars

\* The queue was initialised twice and stopped once; the timer of the first
\* call then started a processing cycle.
C38_Witness ==
    /\ ~processInterval
    /\ liveIntervals = 1
    /\ initialTimers = 2
    /\ wakeTimers = 1
    /\ cyclesStarted = 1
    /\ isProcessing

----
\* What a processing cycle leaves behind (SpecBatch).

\* The cycles that ended and had no provider call fail.
CleanCycles ==
    {c \in CycleIds : cycles[c].pc = "done" /\ EventsOf(c, {"rejected"}) = {}}

\* The enabled locales article id is to be translated into.
TargetsOf(arts, id) ==
    {ENABLED_LOCALES[k] : k \in DOMAIN ENABLED_LOCALES} \ {getArticle(arts, id).sourceLocale}

\* C39: once a cycle has ended in which every provider call succeeded,
\* every article the store held when the cycle started has a translation
\* entry for every enabled locale other than its own.
C39_CleanCycleCoversStore ==
    \A c \in CleanCycles : \A id \in cycles[c].idsAtStart :
        \A locale \in TargetsOf(articles, id) : HasEntry(articles, id, locale)

\* A cycle without a failed call has ended; it started with articles in
\* the store, and an article that came in while it ran still lacks an
\* entry.
C39_Witness ==
    \E c \in CleanCycles :
        /\ cycles[c].idsAtStart # {}
        /\ EventsOf(c, {"resolved"}) # {}
        /\ \E id \in StoredIds(articles) \ cycles[c].idsAtStart :
             \E locale \in TargetsOf(articles, id) : ~HasEntry(articles, id, locale)

====
